---- MODULE Spec2Model ----
(***************************************************************************)
(* A model of rdgproto (LyrinoxTechnologies/ridged-proto): the primitive   *)
(* codec, the payload registry, the message codec and the Protocol engine  *)
(* (send path, streaming, receive loop and stream reassembly).             *)
(*                                                                         *)
(* Go slices are 0-indexed and TLA+ sequences 1-indexed: a reader position *)
(* `pos` is the number of bytes already consumed, so the next byte is      *)
(* data[pos + 1] and Go's data[a:b] is Slice(data, a, b).                  *)
(***************************************************************************)
EXTENDS Integers, Sequences, FiniteSets, TLC

(***************************************************************************)
(* Program constants                                                       *)
(***************************************************************************)
MessageTypeStreamStart == 250
MessageTypeStreamChunk == 251
MessageTypeStreamEnd == 252
ReservedFloor == 250
HeaderSize == 9
SignatureLengthSize == 4
MaxPayloadSize == 104857600
FrameSlack == 1024
MaxStringLen == 1048576
MaxBytesLen == 1073741824
\* message types of the package's tests: a registered one and an unknown one
MsgTypeResponse == 2
UnknownType == 200
\* the first reserved type that has no role in streaming
ReservedSpare == 253

(***************************************************************************)
(* Bounds of the model                                                     *)
(***************************************************************************)
\* longest raw payload a sender hands to Send
MaxPayloadLen == 3
\* number of MarshalSecure calls of the signing specification
MaxSecureCalls == 2
\* number of frames the peer of the Client writes
MaxClientFrames == 2
\* number of Start calls on the Client of the restart specification
MaxStarts == 2
\* number of connections that arrive at the Server's listener
MaxConns == 1
\* number of Wait calls on the Client
MaxWaits == 1
\* number of frames the peer of the signing specification writes
MaxSignedFrames == 2
\* number of frames the peer of the receive-only specification writes
MaxInject == 4
\* number of Register/Unregister calls of the registry specification
MaxRegOps == 3

Byte == 0 .. 255
NoKey == 0

Slice(s, a, b) == SubSeq(s, a + 1, b)

Min(a, b) == IF a < b THEN a ELSE b

RECURSIVE Pow2(_)
Pow2(n) == IF n = 0 THEN 1 ELSE 2 * Pow2(n - 1)

(***************************************************************************)
(* Primitive codec (serialize.go)                                          *)
(***************************************************************************)
Ok(v, p) == [err |-> "nil", val |-> v, pos |-> p]
Fail(e, p) == [err |-> e, val |-> 0, pos |-> p]

\* io.ReadFull on a bytes.Reader: n bytes or io.EOF (nothing left) or
\* io.ErrUnexpectedEOF (fewer than n left); n = 0 always succeeds
ReadFull(data, pos, n) ==
    IF n = 0 THEN Ok(<<>>, pos)
    ELSE IF pos >= Len(data) THEN Fail("EOF", pos)
    ELSE IF pos + n > Len(data) THEN Fail("ErrUnexpectedEOF", Len(data))
    ELSE Ok(Slice(data, pos, pos + n), pos + n)

RECURSIVE WriteVarint(_)
WriteVarint(v) ==
    IF v >= 128 THEN <<(v % 128) + 128>> \o WriteVarint(v \div 128)
    ELSE <<v>>

\* the values of this model's runs stay below 2^31, so the uint64 wrap of the
\* shifted group never happens here
RECURSIVE ReadVarintLoop(_, _, _, _)
ReadVarintLoop(data, pos, result, shift) ==
    IF pos >= Len(data) THEN Fail("EOF", pos)
    ELSE LET b == data[pos + 1] IN
         IF shift >= 64 THEN Fail("ErrVarintOverflow", pos + 1)
         ELSE LET r == result + (b % 128) * Pow2(shift) IN
              IF b < 128 THEN Ok(r, pos + 1)
              ELSE ReadVarintLoop(data, pos + 1, r, shift + 7)

ReadVarint(data, pos) == ReadVarintLoop(data, pos, 0, 0)

WriteUint32(v) == WriteVarint(v)

ReadUint32(data, pos) ==
    LET r == ReadVarint(data, pos) IN
    IF r.err # "nil" THEN r
    \* v > 0xFFFFFFFF, written on the two 16-bit halves
    ELSE IF r.val \div 65536 > 65535 THEN Fail("ErrVarintOverflow", r.pos)
    ELSE r

WriteUint64(v) == WriteVarint(v)

ReadUint64(data, pos) == ReadVarint(data, pos)

\* the four bytes of v, least significant first
WriteUint32FixedLittleEndian(v) ==
    << v % 256, (v \div 256) % 256, (v \div 65536) % 256, (v \div 16777216) % 256 >>

\* binary.Write(buf, binary.BigEndian, uint32(v))
WriteUint32Fixed(v) ==
    << (v \div 16777216) % 256, (v \div 65536) % 256, (v \div 256) % 256, v % 256 >>

\* binary.Read(r, binary.BigEndian, &v) for a uint32.  A value of 2^31 or more
\* is held as 2^31 - 1: the code only ever compares such a value with a length or
\* a bound far below it, and the comparison comes out the same
ReadUint32Fixed(data, pos) ==
    LET r == ReadFull(data, pos, 4) IN
    IF r.err # "nil" THEN r
    ELSE IF r.val[1] >= 128 THEN Ok(2147483647, r.pos)
    ELSE Ok(r.val[1] * 16777216 + r.val[2] * 65536 + r.val[3] * 256 + r.val[4], r.pos)

WriteString(s) == WriteVarint(Len(s)) \o s

ReadString(data, pos) ==
    LET l == ReadVarint(data, pos) IN
    IF l.err # "nil" THEN l
    ELSE IF l.val > MaxStringLen THEN Fail("ErrInvalidStringLen", l.pos)
    ELSE IF l.val = 0 THEN Ok(<<>>, l.pos)
    ELSE ReadFull(data, l.pos, l.val)

WriteBytes(b) == WriteVarint(Len(b)) \o b

ReadBytes(data, pos) ==
    LET l == ReadVarint(data, pos) IN
    IF l.err # "nil" THEN l
    ELSE IF l.val > MaxBytesLen THEN Fail("ErrInvalidBytesLen", l.pos)
    ELSE ReadFull(data, l.pos, l.val)

WriteBool(v) == IF v THEN <<1>> ELSE <<0>>

ReadBool(data, pos) ==
    IF pos >= Len(data) THEN Fail("EOF", pos)
    ELSE Ok(data[pos + 1] = 1, pos + 1)

(***************************************************************************)
(* Payload values (Go interface{} values handed to and returned by the     *)
(* codec), the built-in stream payloads and the tests' ResponsePayload     *)
(***************************************************************************)
NilPayload == [kind |-> "nil"]
RawBytes(b) == [kind |-> "bytes", b |-> b]
StreamHeader(t, size, n) ==
    [kind |-> "header", OriginalType |-> t, TotalSize |-> size, TotalChunks |-> n]
StreamChunk(i, d) == [kind |-> "chunk", ChunkIndex |-> i, Data |-> d]
ResponsePayload(ok, m) == [kind |-> "resp", Success |-> ok, Message |-> m]
\* a value that is neither []byte nor a PayloadMarshaler
NotAPayload == [kind |-> "other"]

POk(b) == [err |-> "nil", bytes |-> b]
PFail(e) == [err |-> e, bytes |-> <<>>]

StreamHeaderMarshal(p) ==
    <<p.OriginalType>> \o WriteUint64(p.TotalSize) \o WriteUint32(p.TotalChunks)

StreamChunkMarshal(p) == WriteUint32(p.ChunkIndex) \o WriteBytes(p.Data)

ResponsePayloadMarshal(p) == WriteBool(p.Success) \o WriteString(p.Message)

MarshalPayload(payload) ==
    CASE payload.kind = "nil" -> POk(<<>>)
      [] payload.kind = "bytes" -> POk(payload.b)
      [] payload.kind = "header" -> POk(StreamHeaderMarshal(payload))
      [] payload.kind = "chunk" -> POk(StreamChunkMarshal(payload))
      [] payload.kind = "resp" -> POk(ResponsePayloadMarshal(payload))
      [] OTHER -> PFail("ErrInvalidPayloadType")

OOk(o) == [err |-> "nil", obj |-> o]
OFail(e) == [err |-> e, obj |-> NilPayload]

StreamHeaderUnmarshal(data) ==
    IF Len(data) = 0 THEN OFail("EOF")
    ELSE LET size == ReadUint64(data, 1) IN
         IF size.err # "nil" THEN OFail(size.err)
         ELSE LET n == ReadUint32(data, size.pos) IN
              IF n.err # "nil" THEN OFail(n.err)
              ELSE OOk(StreamHeader(data[1], size.val, n.val))

StreamChunkUnmarshal(data) ==
    LET i == ReadUint32(data, 0) IN
    IF i.err # "nil" THEN OFail(i.err)
    ELSE LET d == ReadBytes(data, i.pos) IN
         IF d.err # "nil" THEN OFail(d.err)
         ELSE OOk(StreamChunk(i.val, d.val))

ResponsePayloadUnmarshal(data) ==
    LET ok == ReadBool(data, 0) IN
    IF ok.err # "nil" THEN OFail(ok.err)
    ELSE LET m == ReadString(data, ok.pos) IN
         IF m.err # "nil" THEN OFail(m.err)
         ELSE OOk(ResponsePayload(ok.val, m.val))

(***************************************************************************)
(* Payload registry: handlers maps a message type to a factory; a factory  *)
(* is named by the payload type whose fresh instance it returns            *)
(***************************************************************************)
Factories == {"StreamHeader", "StreamChunk", "ResponsePayload"}
NoFactory == "nil"

\* a reserved range that begins one type too late
IsReservedAboveFloor(messageType) == messageType > ReservedFloor

IsReservedType(messageType) == messageType >= ReservedFloor

NewPayloadRegistry ==
    (MessageTypeStreamStart :> "StreamHeader") @@ (MessageTypeStreamChunk :> "StreamChunk")

Register(handlers, messageType, factory) ==
    IF IsReservedType(messageType) THEN handlers
    ELSE (messageType :> factory) @@ handlers

Unregister(handlers, messageType) ==
    IF IsReservedType(messageType) THEN handlers
    ELSE [t \in DOMAIN handlers \ {messageType} |-> handlers[t]]

Get(handlers, messageType) ==
    IF messageType \in DOMAIN handlers THEN handlers[messageType] ELSE NoFactory

Has(handlers, messageType) == messageType \in DOMAIN handlers

\* p := factory(); p.Unmarshal(data)
FactoryUnmarshal(factory, data) ==
    CASE factory = "StreamHeader" -> StreamHeaderUnmarshal(data)
      [] factory = "StreamChunk" -> StreamChunkUnmarshal(data)
      [] OTHER -> ResponsePayloadUnmarshal(data)

\* a decoder that returns raw bytes for an unknown type in strict mode too
UnmarshalPayloadWithRegistryLenient(messageType, data, registry, strict) ==
    LET factory == Get(registry, messageType) IN
    IF factory # NoFactory THEN FactoryUnmarshal(factory, data)
    ELSE OOk(RawBytes(data))

UnmarshalPayloadWithRegistryStrict(messageType, data, registry, strict) ==
    LET factory == Get(registry, messageType) IN
    IF factory # NoFactory THEN FactoryUnmarshal(factory, data)
    ELSE IF strict THEN OFail("ErrUnknownMessageType")
    ELSE OOk(RawBytes(data))

\* the same decision taken on the process-wide registry, handed in as global
UnmarshalPayloadStrict(global, messageType, data, strict) ==
    UnmarshalPayloadWithRegistryStrict(messageType, data, global, strict)

UnmarshalPayload(global, messageType, data) ==
    UnmarshalPayloadStrict(global, messageType, data, FALSE)

(***************************************************************************)
(* Signer / Verifier.  HMAC-SHA256 is taken as an ideal keyed tag: the tag *)
(* of data under a key is the key followed by the data, so that two tags   *)
(* agree exactly when key and data agree.                                  *)
(***************************************************************************)
Sign(key, data) == <<key>> \o data

\* a verifier that accepts every signature
VerifyAcceptsAll(key, data, signature) == "nil"

Verify(key, data, signature) ==
    IF Sign(key, data) = signature THEN "nil" ELSE "ErrInvalidSignature"

\* MessageOptions; Signer and Verifier are keys (NoKey: not set), Registry is
\* [set |-> FALSE] for nil or carries its handlers
NoRegistry == [set |-> FALSE, handlers |-> NewPayloadRegistry]
WithRegistry(h) == [set |-> TRUE, handlers |-> h]
MessageOptions(signer, verifier, registry, strict) ==
    [Signer |-> signer, Verifier |-> verifier, Registry |-> registry, StrictMode |-> strict]
NilOptions == MessageOptions(NoKey, NoKey, NoRegistry, FALSE)
StrictMessageOptions == MessageOptions(NoKey, NoKey, NoRegistry, TRUE)
SecureMessageOptions(secret) == MessageOptions(secret, secret, NoRegistry, FALSE)

(***************************************************************************)
(* Message codec (message.go)                                              *)
(***************************************************************************)
MOk(d) == [err |-> "nil", data |-> d]
MFail(e) == [err |-> e, data |-> <<>>]

MarshalMessage(messageType, messageID, payload, opts) ==
    LET pb == MarshalPayload(payload) IN
    IF pb.err # "nil" THEN MFail(pb.err)
    ELSE IF Len(pb.bytes) > MaxPayloadSize THEN MFail("ErrPayloadTooLarge")
    ELSE LET buf == <<messageType>> \o WriteUint32Fixed(messageID)
                    \o WriteUint32Fixed(Len(pb.bytes)) \o pb.bytes
         IN IF opts.Signer # NoKey
            THEN LET signature == Sign(opts.Signer, buf) IN
                 MOk(buf \o WriteUint32Fixed(Len(signature)) \o signature)
            ELSE MOk(buf \o WriteUint32Fixed(0))

Message(t, id, payload, signature) ==
    [Type |-> t, ID |-> id, Payload |-> payload, Signature |-> signature]
NoMessage == [Type |-> 0 - 1, ID |-> 0, Payload |-> <<>>, Signature |-> <<>>]

\* (msg, payloadObj, err); msg = NoMessage stands for a nil *Message
UOk(m, o) == [err |-> "nil", msg |-> m, payload |-> o]
UFail(e) == [err |-> e, msg |-> NoMessage, payload |-> NilPayload]
UFailMsg(e, m) == [err |-> e, msg |-> m, payload |-> NilPayload]

\* the last step of UnmarshalMessage: the payload is decoded with opts.Registry
\* when set and with the global registry otherwise
DecodePayload(global, opts, messageType, payload) ==
    IF opts.Registry.set
    THEN UnmarshalPayloadWithRegistryStrict(messageType, payload,
                                            opts.Registry.handlers, opts.StrictMode)
    ELSE UnmarshalPayloadStrict(global, messageType, payload, opts.StrictMode)

\* a signature check that hands an empty signature to the verifier
CheckSignatureOfAnyLength(opts, data, payloadLen, sigLen, signature) ==
    IF opts.Verifier = NoKey THEN "nil"
    ELSE Verify(opts.Verifier, Slice(data, 0, HeaderSize + payloadLen), signature)

\* the signature check of UnmarshalMessage: "nil" when no verifier is set
CheckSignature(opts, data, payloadLen, sigLen, signature) ==
    IF opts.Verifier = NoKey THEN "nil"
    ELSE IF sigLen = 0 THEN "ErrSignatureRequired"
    ELSE Verify(opts.Verifier, Slice(data, 0, HeaderSize + payloadLen), signature)

\* an UnmarshalMessage that decodes the payload before it looks at the result
\* of the signature check
DecodedThenVerified(verr, msg, obj) ==
    IF obj.err # "nil" THEN UFailMsg(obj.err, msg)
    ELSE IF verr # "nil" THEN UFail(verr)
    ELSE UOk(msg, obj.obj)

\* the end of UnmarshalMessage: the error of the signature check is returned
\* before the payload is decoded (obj is evaluated only when verr = "nil")
VerifiedThenDecoded(verr, msg, obj) ==
    IF verr # "nil" THEN UFail(verr)
    ELSE IF obj.err # "nil" THEN UFailMsg(obj.err, msg)
    ELSE UOk(msg, obj.obj)

UnmarshalMessage(global, data, opts) ==
    IF Len(data) < HeaderSize + SignatureLengthSize THEN UFail("ErrInvalidMessage")
    ELSE
    LET messageType == data[1]
        id == ReadUint32Fixed(data, 1)
        plen == ReadUint32Fixed(data, id.pos)
    IN
    IF plen.val > MaxPayloadSize THEN UFail("ErrPayloadTooLarge")
    ELSE
    LET payload == ReadFull(data, plen.pos, plen.val) IN
    IF payload.err # "nil" THEN UFail(payload.err)
    ELSE
    LET sigLen == ReadUint32Fixed(data, payload.pos) IN
    IF sigLen.err # "nil" THEN UFail(sigLen.err)
    ELSE
    LET sig == ReadFull(data, sigLen.pos, sigLen.val) IN
    IF sig.err # "nil" THEN UFail(sig.err)
    ELSE
    LET verr == CheckSignature(opts, data, plen.val, sigLen.val, sig.val)
        msg == Message(messageType, id.val, payload.val, sig.val)
        obj == DecodePayload(global, opts, messageType, payload.val)
    IN VerifiedThenDecoded(verr, msg, obj)


(***************************************************************************)
(* Protocol engine (message.go): state                                     *)
(***************************************************************************)
VARIABLES
    globalRegistry, \* handlers of the process-wide registry
    regLast,        \* the last Register/Unregister call and the handlers before it
    streamConfig,   \* the sending Protocol's StreamConfig
    sopts,          \* the sending Protocol's MessageOptions
    ropts,          \* the receiving Protocol's MessageOptions
    nextID,         \* the sending Protocol's nextID
    lock,           \* holder of each sync.Mutex (NoOne when free)
    wire,           \* every byte written to the transport, in order
    rpos,           \* number of bytes of wire the receiving side has read
    activeStreams,  \* the receiving Protocol's map id -> *streamAssembler
    snd,            \* the goroutines calling Send or NextMessageID
    rcv,            \* the goroutines calling ReceiveMessage in a loop
    sent,           \* the Send calls made so far: type, id, payload bytes
    results,        \* what the ReceiveMessage calls returned, in order
    userCalls,      \* user code run so far, with the locks its goroutine held
    codec,          \* the marshal / unmarshal round trip of the codec specification
    conn,           \* the receiving Protocol's transport: "open", "eof" or "closed"
    client,         \* the Client over the receiving Protocol: running, done, errChan
    messageIDCounter, \* the process-wide id counter of Marshal and MarshalSecure
    secure,         \* the MarshalSecure / UnmarshalSecure calls of their specification
    big,            \* a send and its reception followed by the lengths of the payloads only
    server,         \* a Server: running, done, its listener, its clients, its callers
    vint            \* a WriteVarint / ReadVarint round trip on a 64-bit value

vars == << globalRegistry, regLast, streamConfig, sopts, ropts, nextID, lock, wire, rpos,
           activeStreams, snd, rcv, sent, results, userCalls, codec, conn, client,
           messageIDCounter, secure, big, server, vint >>

\* a Client as NewClient returns it: not running, done open, errChan (of
\* capacity 1) empty; lpc is where its listen goroutine stands, handled the
\* number of ReceiveMessage returns listen has dealt with, cause the error listen
\* returned on, offer what became of its send on errChan, handlerErrs the
\* handler errors so far, waits what the Wait calls returned; startsLeft is the
\* number of Start calls the program still makes, active the number of listen
\* goroutines that were started and have not yet cleared running, closers the
\* number of those that have cleared it and not yet closed done, closes the
\* number of close(done) calls made
NoClient == [running |-> FALSE, done |-> FALSE, errChan |-> <<>>, lpc |-> "off",
             handled |-> 0, cause |-> "nil", offer |-> "none", handlerErrs |-> 0,
             waits |-> <<>>, startsLeft |-> 1, active |-> 0, closers |-> 0, closes |-> 0]

clientVars == << conn, client >>
secureVars == << messageIDCounter, secure >>
\* the variables of the specifications that stand apart from the Protocol
apartVars == << big, server, vint >>

\* no send followed by its lengths: pc is where the call stands, cfg the
\* sender's StreamConfig, len the length of the marshalled payload, stage and i
\* where sendStreamed stands, err what SendMessage returned, frames the frames
\* written, rd how many of them the receiver has read, asm the receiver's
\* assembler (total < 0: none), got the payload lengths and errors that
\* ReceiveMessage returned
NoBig == [pc |-> "off", cfg |-> [Threshold |-> 0, ChunkSize |-> 1, Enabled |-> FALSE],
          len |-> 0, stage |-> "done", i |-> 0, err |-> "nil", frames |-> <<>>, rd |-> 0,
          asm |-> [total |-> 0 - 1, received |-> 0, size |-> 0], got |-> <<>>]

\* the goroutines that call Server.Start and those that call Server.Stop
Starters == {"a1", "a2"}
Stoppers == {"p1", "p2"}

\* a Server as NewServer returns it, in a program that does not use it (pc
\* "off"): not running, done open (doneCloses counts the close(s.done) calls),
\* the listener open, no clients; conns counts the connections accepted,
\* handling is the set of clients whose connection goroutine runs, closed the
\* set of clients whose Close was called, start and stop are where each Start
\* and Stop call stands
NoServer ==
    [pc |-> "off", running |-> FALSE, doneCloses |-> 0, listener |-> "open", clients |-> {},
     conns |-> 0, handling |-> {}, closed |-> {},
     start |-> [a \in Starters |-> [pc |-> "idle", conn |-> 0]],
     stop |-> [p \in Stoppers |-> [pc |-> "idle", snapshot |-> {}]]]

\* no varint round trip: pc is where it stands, v the value written (the set
\* of the positions of its 1 bits), n the number of bytes WriteVarint wrote,
\* data the bytes handed to ReadVarint, res what ReadVarint returned
NoVint == [pc |-> "off", v |-> {}, n |-> 0, data |-> <<>>,
           res |-> [err |-> "nil", val |-> {}, pos |-> 0]]

InitApart == big = NoBig /\ server = NoServer /\ vint = NoVint
\* what no step of a Protocol changes
offProtocol == << globalRegistry, regLast, codec, clientVars, secureVars, apartVars >>

protoVars == << streamConfig, sopts, ropts, nextID, lock, wire, rpos,
                activeStreams, snd, rcv, sent, results, userCalls >>

NoOne == "none"
Locks == {"mu", "readMu", "idMu", "streamMu"}
Senders == {"s1", "s2"}
Receivers == {"r1"}

\* the registry as the package's tests leave it (init() of the test file)
TestRegistry == Register(NewPayloadRegistry, MsgTypeResponse, "ResponsePayload")

StreamConfig(threshold, chunkSize, enabled) ==
    [Threshold |-> threshold, ChunkSize |-> chunkSize, Enabled |-> enabled]

\* a raw payload of n bytes, all different
PayloadOfLen(n) == [i \in 1 .. n |-> 16 + i]

(***************************************************************************)
(* Locks                                                                   *)
(***************************************************************************)
\* mutexes that never block
LockAlwaysFree(l) == TRUE

LockFree(l) == lock[l] = NoOne
HeldBy(g) == {l \in Locks : lock[l] = g}
\* the locks g holds once it has released l
HeldAfterUnlock(g, l) == HeldBy(g) \ {l}

\* a deferred Unlock that never runs
UnlockForgotten(l, g) == lock

\* l.Unlock() by g
Unlock(l, g) == [lock EXCEPT ![l] = IF @ = g THEN NoOne ELSE @]

(***************************************************************************)
(* Send path                                                               *)
(***************************************************************************)
\* a SendMessage that streams only payloads longer than the threshold
NeedsStreamingAbove(cfg, payloadBytes) == cfg.Enabled /\ Len(payloadBytes) > cfg.Threshold

\* SendMessage: stream when enabled and the payload has reached the threshold
NeedsStreaming(cfg, payloadBytes) == cfg.Enabled /\ Len(payloadBytes) >= cfg.Threshold

\* totalChunks rounded down: the last, partial chunk is never sent
TotalChunksFloor(len, chunkSize) == len \div chunkSize

\* sendStreamed: totalChunks
TotalChunks(len, chunkSize) == (len + chunkSize - 1) \div chunkSize

\* sendStreamed: payloadBytes[start:end] of chunk i
ChunkData(payloadBytes, i, chunkSize) ==
    Slice(payloadBytes, i * chunkSize, Min(i * chunkSize + chunkSize, Len(payloadBytes)))

\* the sub-message sendStreamed (or SendMessage, stage "direct") hands to sendDirect
FrameType(s) ==
    CASE s.stage = "direct" -> s.type
      [] s.stage = "start" -> MessageTypeStreamStart
      [] s.stage = "chunk" -> MessageTypeStreamChunk
      [] OTHER -> MessageTypeStreamEnd

FramePayload(s, cfg) ==
    CASE s.stage = "direct" -> s.payload
      [] s.stage = "start" ->
            StreamHeader(s.type, Len(s.pbytes), TotalChunks(Len(s.pbytes), cfg.ChunkSize))
      [] s.stage = "chunk" -> StreamChunk(s.i, ChunkData(s.pbytes, s.i, cfg.ChunkSize))
      [] OTHER -> RawBytes(<<>>)

\* where sendStreamed goes once sendDirect has returned nil
NextStage(s, cfg) ==
    LET total == TotalChunks(Len(s.pbytes), cfg.ChunkSize) IN
    CASE s.stage = "direct" -> [stage |-> "done", i |-> 0]
      [] s.stage = "start" ->
            IF total > 0 THEN [stage |-> "chunk", i |-> 0] ELSE [stage |-> "end", i |-> 0]
      [] s.stage = "chunk" ->
            IF s.i + 1 < total THEN [stage |-> "chunk", i |-> s.i + 1]
            ELSE [stage |-> "end", i |-> 0]
      [] OTHER -> [stage |-> "done", i |-> 0]

\* the user code MarshalPayload runs: the Marshal method of a user payload
UserCodeOfMarshal(payload) == IF payload.kind = "resp" THEN {"Marshal"} ELSE {}

IdleSender ==
    [pc |-> "idle", type |-> 0, id |-> 0, payload |-> NilPayload, pbytes |-> <<>>,
     stage |-> "done", i |-> 0, data |-> <<>>, err |-> "nil"]

\* what the goroutines of the model send.  To a receiver that is not strict: s1
\* raw bytes of an unregistered type, of every length up to the bound, or a
\* ResponsePayload of its registered type, and s2 one or two raw bytes.  To a
\* strict receiver, which rejects unregistered types by design: ResponsePayloads
\* of their registered type.
SendInputs(g) ==
    IF ropts.StrictMode
    THEN IF g = "s1"
         THEN {<<MsgTypeResponse, ResponsePayload(TRUE, PayloadOfLen(n))>> :
                  n \in 0 .. MaxPayloadLen - 2}
         ELSE {<<MsgTypeResponse, ResponsePayload(FALSE, <<>>)>>}
    ELSE IF g = "s1"
         THEN {<<UnknownType, RawBytes(PayloadOfLen(n))>> : n \in 0 .. MaxPayloadLen}
              \cup {<<MsgTypeResponse, ResponsePayload(TRUE, <<65>>)>>}
         ELSE {<<UnknownType, RawBytes(<<99>>)>>, <<UnknownType, RawBytes(<<98, 99>>)>>}

\* NextMessageID without its lock
IdMuNeverTaken == TRUE

\* the idMu guard of NextMessageID
IdMuFree == LockFree("idMu")

\* sendDirect without its lock
WriteMuNeverTaken == TRUE

\* the mu guard of sendDirect
WriteMuFree == LockFree("mu")

\* Send / NextMessageID: p.idMu.Lock(); id := p.nextID
NextMessageIDLock(g) ==
    /\ snd[g].pc = "idle"
    /\ IdMuFree
    /\ \E in \in SendInputs(g) :
          snd' = [snd EXCEPT ![g] = [@ EXCEPT !.pc = "nextid", !.id = nextID,
                                               !.type = in[1], !.payload = in[2]]]
    /\ lock' = [lock EXCEPT !["idMu"] = g]
    /\ UNCHANGED << streamConfig, sopts, ropts, nextID, wire, rpos, activeStreams, rcv,
                    sent, results, userCalls >>

\* NextMessageID: p.nextID++, the deferred unlock and the return; Send goes on
\* into SendMessage: MarshalPayload and the streaming decision
NextMessageIDReturn(g) ==
    /\ snd[g].pc = "nextid"
    /\ nextID' = nextID + 1
    /\ lock' = Unlock("idMu", g)
    /\ LET pb == MarshalPayload(snd[g].payload)
           streamed == NeedsStreaming(streamConfig, pb.bytes)
       IN /\ snd' = [snd EXCEPT ![g] =
                       [@ EXCEPT !.pc = IF pb.err = "nil" THEN "send" ELSE "done",
                                 !.err = pb.err,
                                 !.pbytes = pb.bytes,
                                 !.stage = IF streamed THEN "start" ELSE "direct"]]
          /\ sent' = Append(sent, [Type |-> snd[g].type, ID |-> snd[g].id,
                                   Payload |-> pb.bytes, streamed |-> streamed])
          /\ userCalls' = userCalls \cup
                {[fn |-> f, held |-> HeldAfterUnlock(g, "idMu")] :
                    f \in UserCodeOfMarshal(snd[g].payload)}
    /\ UNCHANGED << streamConfig, sopts, ropts, wire, rpos, activeStreams, rcv, results >>

\* a sendStreamed that hands the options to the START only
FrameOptionsOfStartOnly(s, opts) ==
    IF s.stage \in {"chunk", "end"} THEN MessageOptions(NoKey, NoKey, NoRegistry, FALSE)
    ELSE opts

\* sendDirect: the options it hands to MarshalMessage are p.opts, for a
\* message sent whole and for every sub-message of a stream
FrameOptions(s, opts) == opts

\* sendDirect: MarshalMessage, p.mu.Lock(), the write of the length prefix
SendDirectLock(g) ==
    /\ snd[g].pc = "send"
    /\ LET fopts == FrameOptions(snd[g], sopts)
           m == MarshalMessage(FrameType(snd[g]), snd[g].id,
                               FramePayload(snd[g], streamConfig), fopts)
       IN /\ userCalls' = userCalls \cup
                {[fn |-> f, held |-> HeldBy(g)] :
                    f \in UserCodeOfMarshal(FramePayload(snd[g], streamConfig))
                           \cup (IF fopts.Signer # NoKey /\ m.err = "nil"
                                 THEN {"Sign"} ELSE {})}
          /\ IF m.err # "nil"
             THEN /\ snd' = [snd EXCEPT ![g] = [@ EXCEPT !.pc = "done", !.err = m.err]]
                  /\ UNCHANGED << lock, wire >>
             ELSE /\ WriteMuFree
                  /\ lock' = [lock EXCEPT !["mu"] = g]
                  /\ wire' = wire \o WriteUint32Fixed(Len(m.data))
                  /\ snd' = [snd EXCEPT ![g] = [@ EXCEPT !.pc = "write", !.data = m.data]]
    /\ UNCHANGED << streamConfig, sopts, ropts, nextID, rpos, activeStreams, rcv, sent,
                    results >>

\* sendDirect: the write of the message, the deferred unlock and the return into
\* SendMessage or into the loop of sendStreamed
SendDirectWrite(g) ==
    /\ snd[g].pc = "write"
    /\ wire' = wire \o snd[g].data
    /\ lock' = Unlock("mu", g)
    /\ LET n == NextStage(snd[g], streamConfig) IN
       snd' = [snd EXCEPT ![g] = [@ EXCEPT !.pc = IF n.stage = "done" THEN "done" ELSE "send",
                                           !.stage = n.stage, !.i = n.i, !.data = <<>>]]
    /\ UNCHANGED << streamConfig, sopts, ropts, nextID, rpos, activeStreams, rcv, sent,
                    results, userCalls >>

\* what a failed conn.Write of b has put on the transport: none of it, or a
\* part
PartialWrites(b) == {Slice(b, 0, n) : n \in {0, Len(b) \div 2}}

\* a sendStreamed that goes on to its next sub-message after a failed write
WriteFailedGoesOn(s, err) ==
    LET n == NextStage(s, streamConfig) IN
    [s EXCEPT !.pc = IF n.stage = "done" THEN "done" ELSE "send",
              !.stage = n.stage, !.i = n.i, !.err = err, !.data = <<>>]

\* sendDirect returns the error of conn.Write, and SendMessage or sendStreamed
\* returns it in turn
WriteFailed(s, err) == [s EXCEPT !.pc = "done", !.err = err, !.data = <<>>]

\* sendDirect: the write of the length prefix fails; the deferred unlock and
\* the return of the error
SendDirectLockFail(g) ==
    /\ snd[g].pc = "send"
    /\ LET fopts == FrameOptions(snd[g], sopts)
           m == MarshalMessage(FrameType(snd[g]), snd[g].id,
                               FramePayload(snd[g], streamConfig), fopts)
       IN /\ m.err = "nil"
          /\ WriteMuFree
          /\ userCalls' = userCalls \cup
                {[fn |-> f, held |-> HeldBy(g)] :
                    f \in UserCodeOfMarshal(FramePayload(snd[g], streamConfig))
                           \cup (IF fopts.Signer # NoKey THEN {"Sign"} ELSE {})}
          /\ \E part \in PartialWrites(WriteUint32Fixed(Len(m.data))) :
                wire' = wire \o part
    /\ snd' = [snd EXCEPT ![g] = WriteFailed(@, "ErrWrite")]
    /\ UNCHANGED << streamConfig, sopts, ropts, nextID, lock, rpos, activeStreams, rcv,
                    sent, results >>

\* sendDirect: the write of the message fails; the deferred unlock and the
\* return of the error
SendDirectWriteFail(g) ==
    /\ snd[g].pc = "write"
    /\ \E part \in PartialWrites(snd[g].data) : wire' = wire \o part
    /\ lock' = Unlock("mu", g)
    /\ snd' = [snd EXCEPT ![g] = WriteFailed(@, "ErrWrite")]
    /\ UNCHANGED << streamConfig, sopts, ropts, nextID, rpos, activeStreams, rcv, sent,
                    results, userCalls >>


(***************************************************************************)
(* Receive path                                                            *)
(***************************************************************************)
NewAssembler(header) == [header |-> header, chunks |-> << >>, received |-> 0]

\* a startStream that gives an existing assembler the new header and keeps its
\* chunks
StartStreamKeepingChunks(streams, msgID, header) ==
    IF msgID \in DOMAIN streams
    THEN [streams EXCEPT ![msgID] = [@ EXCEPT !.header = header]]
    ELSE (msgID :> NewAssembler(header)) @@ streams

\* startStream
StartStream(streams, msgID, header) ==
    (msgID :> NewAssembler(header)) @@ streams

\* assembler.chunks[i], nil (empty) when no chunk of that index is stored
ChunkAt(assembler, i) ==
    IF i \in DOMAIN assembler.chunks THEN assembler.chunks[i] ELSE <<>>

RECURSIVE AssembleFrom(_, _)
AssembleFrom(assembler, i) ==
    IF i >= assembler.header.TotalChunks THEN <<>>
    ELSE ChunkAt(assembler, i) \o AssembleFrom(assembler, i + 1)

\* an assembly that starts at chunk 1
AssembleSkippingFirst(assembler) == AssembleFrom(assembler, 1)

\* assembleStream
AssembleStream(assembler) == AssembleFrom(assembler, 0)

\* an addChunk that keeps the data stored first under an index
StoreChunkFirstWins(assembler, chunk) ==
    [assembler EXCEPT !.chunks = @ @@ (chunk.ChunkIndex :> chunk.Data),
                      !.received = @ + 1]

\* addChunk: the assembler once the chunk is stored and counted
StoreChunk(assembler, chunk) ==
    [assembler EXCEPT !.chunks = (chunk.ChunkIndex :> chunk.Data) @@ @,
                      !.received = @ + 1]

\* addChunk: the completion test
StreamComplete(assembler) == assembler.received = assembler.header.TotalChunks

DeleteStream(streams, msgID) == [k \in DOMAIN streams \ {msgID} |-> streams[k]]

\* receiveRaw: the bound on the announced frame length
FrameTooLarge(msgLen) ==
    msgLen > MaxPayloadSize + HeaderSize + SignatureLengthSize + FrameSlack

\* the user code UnmarshalMessage runs on data: the verifier once the frame has
\* parsed and carries a signature, a registered factory and its payload's
\* Unmarshal once the signature is accepted (the factories of the reserved
\* types are the package's own)
UserCodeOfUnmarshal(global, data, opts) ==
    LET quiet == UnmarshalMessage(global, data, MessageOptions(NoKey, NoKey, opts.Registry, FALSE))
        full == UnmarshalMessage(global, data, opts)
        parsed == quiet.msg # NoMessage
        registry == IF opts.Registry.set THEN opts.Registry.handlers ELSE global
    IN (IF parsed /\ opts.Verifier # NoKey /\ Len(quiet.msg.Signature) > 0
        THEN {"Verify"} ELSE {})
       \cup
       (IF parsed /\ full.err \notin {"ErrSignatureRequired", "ErrInvalidSignature"}
           /\ Has(registry, quiet.msg.Type) /\ ~IsReservedType(quiet.msg.Type)
        THEN {"Factory", "Unmarshal"} ELSE {})

IdleReceiver == [pc |-> "idle", msgLen |-> 0, raw |-> UFail("nil"), assembled |-> <<>>]

Returned(r, res) == [by |-> r, err |-> res.err, msg |-> res.msg, payload |-> res.payload]

\* receiveRaw without its lock
ReadMuNeverTaken == TRUE

\* the readMu guard of receiveRaw
ReadMuFree == LockFree("readMu")

\* the streamMu guard of startStream, addChunk and the END case
StreamMuFree == LockFree("streamMu")

\* receiveRaw: p.readMu.Lock(), the read of the length prefix and the bound on it
ReceiveRawLock(r) ==
    /\ rcv[r].pc = "idle"
    /\ ReadMuFree
    /\ conn # "closed"
    /\ rpos + 4 <= Len(wire)
    /\ LET msgLen == ReadUint32Fixed(wire, rpos).val IN
       /\ rpos' = rpos + 4
       /\ IF FrameTooLarge(msgLen)
          THEN /\ results' = Append(results, Returned(r, UFail("ErrPayloadTooLarge")))
               /\ UNCHANGED << lock, rcv >>
          ELSE /\ lock' = [lock EXCEPT !["readMu"] = r]
               /\ rcv' = [rcv EXCEPT ![r] = [@ EXCEPT !.pc = "body", !.msgLen = msgLen]]
               /\ UNCHANGED results
    /\ UNCHANGED << streamConfig, sopts, ropts, nextID, wire, activeStreams, snd, sent,
                    userCalls >>

\* receiveRaw: the read of the message, UnmarshalMessage, the deferred unlock
ReceiveRawBody(r) ==
    /\ rcv[r].pc = "body"
    /\ conn # "closed"
    /\ rpos + rcv[r].msgLen <= Len(wire)
    /\ LET data == Slice(wire, rpos, rpos + rcv[r].msgLen)
           res == UnmarshalMessage(globalRegistry, data, ropts)
       IN /\ rpos' = rpos + rcv[r].msgLen
          /\ userCalls' = userCalls \cup
                {[fn |-> f, held |-> HeldBy(r)] :
                    f \in UserCodeOfUnmarshal(globalRegistry, data, ropts)}
          /\ rcv' = [rcv EXCEPT ![r] = [@ EXCEPT !.pc = "dispatch", !.raw = res]]
    /\ lock' = Unlock("readMu", r)
    /\ UNCHANGED << streamConfig, sopts, ropts, nextID, wire, activeStreams, snd, sent,
                    results >>

\* the message ReceiveMessage builds from a reassembled stream, decoded with
\* UnmarshalPayload
Reassembled(global, originalType, msgID, assembledPayload) ==
    LET obj == UnmarshalPayload(global, originalType, assembledPayload) IN
    IF obj.err # "nil" THEN UFail(obj.err)
    ELSE UOk(Message(originalType, msgID, assembledPayload, <<>>), obj.obj)

\* the user code run on a reassembled payload
UserCodeOfReassembly(global, originalType) ==
    IF Has(global, originalType) /\ ~IsReservedType(originalType)
    THEN {"Factory", "Unmarshal"} ELSE {}

\* ReceiveMessage: the error return and the default case of the switch
ReceiveReturn(r) ==
    /\ rcv[r].pc = "dispatch"
    /\ \/ rcv[r].raw.err # "nil"
       \/ rcv[r].raw.msg.Type \notin
             {MessageTypeStreamStart, MessageTypeStreamChunk, MessageTypeStreamEnd}
    /\ results' = Append(results,
          Returned(r, IF rcv[r].raw.err # "nil" THEN UFail(rcv[r].raw.err) ELSE rcv[r].raw))
    /\ rcv' = [rcv EXCEPT ![r] = IdleReceiver]
    /\ UNCHANGED << streamConfig, sopts, ropts, nextID, lock, wire, rpos, activeStreams,
                    snd, sent, userCalls >>

\* ReceiveMessage: case MessageTypeStreamStart
ReceiveStart(r) ==
    /\ rcv[r].pc = "dispatch"
    /\ rcv[r].raw.err = "nil"
    /\ rcv[r].raw.msg.Type = MessageTypeStreamStart
    /\ StreamMuFree
    /\ activeStreams' = StartStream(activeStreams, rcv[r].raw.msg.ID, rcv[r].raw.payload)
    /\ rcv' = [rcv EXCEPT ![r] = IdleReceiver]
    /\ UNCHANGED << streamConfig, sopts, ropts, nextID, lock, wire, rpos, snd, sent,
                    results, userCalls >>

\* ReceiveMessage: case MessageTypeStreamChunk, the call of addChunk
ReceiveChunk(r) ==
    /\ rcv[r].pc = "dispatch"
    /\ rcv[r].raw.err = "nil"
    /\ rcv[r].raw.msg.Type = MessageTypeStreamChunk
    /\ StreamMuFree
    /\ LET id == rcv[r].raw.msg.ID IN
       IF id \notin DOMAIN activeStreams
       THEN /\ rcv' = [rcv EXCEPT ![r] = IdleReceiver]
            /\ UNCHANGED activeStreams
       ELSE LET a == StoreChunk(activeStreams[id], rcv[r].raw.payload) IN
            /\ activeStreams' = [activeStreams EXCEPT ![id] = a]
            /\ rcv' = [rcv EXCEPT ![r] =
                  IF StreamComplete(a)
                  THEN [@ EXCEPT !.pc = "complete", !.assembled = AssembleStream(a)]
                  ELSE IdleReceiver]
    /\ UNCHANGED << streamConfig, sopts, ropts, nextID, lock, wire, rpos, snd, sent,
                    results, userCalls >>

\* ReceiveMessage: the complete branch of the CHUNK case: the assembler is
\* looked up again and deleted under streamMu, then the payload is decoded; a
\* missing assembler is a nil dereference
ReceiveComplete(r) ==
    /\ rcv[r].pc = "complete"
    /\ StreamMuFree
    /\ LET id == rcv[r].raw.msg.ID IN
       IF id \notin DOMAIN activeStreams
       THEN /\ rcv' = [rcv EXCEPT ![r] = [@ EXCEPT !.pc = "panic"]]
            /\ UNCHANGED << activeStreams, results, userCalls >>
       ELSE LET originalType == activeStreams[id].header.OriginalType IN
            /\ activeStreams' = DeleteStream(activeStreams, id)
            /\ results' = Append(results,
                  Returned(r, Reassembled(globalRegistry, originalType, id, rcv[r].assembled)))
            /\ userCalls' = userCalls \cup
                  {[fn |-> f, held |-> HeldBy(r)] :
                      f \in UserCodeOfReassembly(globalRegistry, originalType)}
            /\ rcv' = [rcv EXCEPT ![r] = IdleReceiver]
    /\ UNCHANGED << streamConfig, sopts, ropts, nextID, lock, wire, rpos, snd, sent >>

\* ReceiveMessage: case MessageTypeStreamEnd
ReceiveEnd(r) ==
    /\ rcv[r].pc = "dispatch"
    /\ rcv[r].raw.err = "nil"
    /\ rcv[r].raw.msg.Type = MessageTypeStreamEnd
    /\ StreamMuFree
    /\ LET id == rcv[r].raw.msg.ID IN
       IF id \in DOMAIN activeStreams /\ StreamComplete(activeStreams[id])
       THEN LET originalType == activeStreams[id].header.OriginalType
                assembledPayload == AssembleStream(activeStreams[id])
            IN /\ activeStreams' = DeleteStream(activeStreams, id)
               /\ results' = Append(results,
                     Returned(r, Reassembled(globalRegistry, originalType, id, assembledPayload)))
               /\ userCalls' = userCalls \cup
                     {[fn |-> f, held |-> HeldBy(r)] :
                         f \in UserCodeOfReassembly(globalRegistry, originalType)}
       ELSE UNCHANGED << activeStreams, results, userCalls >>
    /\ rcv' = [rcv EXCEPT ![r] = IdleReceiver]
    /\ UNCHANGED << streamConfig, sopts, ropts, nextID, lock, wire, rpos, snd, sent >>


(***************************************************************************)
(* The peer of the receive-only specification: it writes whole, well-framed*)
(* messages of any type, stream control messages included                  *)
(***************************************************************************)
PeerStart(id, n) ==
    [Type |-> MessageTypeStreamStart, ID |-> id, Payload |-> StreamHeader(UnknownType, n, n)]
PeerChunk(id, i, d) ==
    [Type |-> MessageTypeStreamChunk, ID |-> id, Payload |-> StreamChunk(i, d)]
PeerEnd(id) == [Type |-> MessageTypeStreamEnd, ID |-> id, Payload |-> RawBytes(<<>>)]
PeerFrames ==
    {PeerStart(1, 2), PeerStart(1, 0),
     PeerChunk(1, 0, <<33>>), PeerChunk(1, 0, <<44>>), PeerChunk(1, 1, <<44>>),
     PeerChunk(2, 0, <<33>>), PeerEnd(1), PeerEnd(2),
     [Type |-> UnknownType, ID |-> 1, Payload |-> RawBytes(<<55>>)],
     [Type |-> ReservedSpare, ID |-> 1, Payload |-> RawBytes(<<55>>)]}

\* the peer writes its next frame once the frames before it have been read: a
\* single reader of an in-order byte stream sees the same bytes whenever they
\* were written
PeerWriteOf(frames, max) ==
    /\ Len(sent) < max
    /\ rpos = Len(wire)
    /\ \E f \in frames :
          LET m == MarshalMessage(f.Type, f.ID, f.Payload, sopts) IN
          /\ wire' = wire \o WriteUint32Fixed(Len(m.data)) \o m.data
          /\ sent' = Append(sent, [Type |-> f.Type, ID |-> f.ID,
                                   Payload |-> MarshalPayload(f.Payload).bytes,
                                   streamed |-> FALSE])
    /\ UNCHANGED << streamConfig, sopts, ropts, nextID, lock, rpos, activeStreams, snd,
                    rcv, results, userCalls >>

PeerWrite == PeerWriteOf(PeerFrames, MaxInject)

\* the frames of the peer of the signing specification: a stream of one chunk
\* under a message id of its own
SignedFrames == {PeerStart(9, 1), PeerChunk(9, 0, <<33>>)}

\* the keys that peer signs a frame with: none, the receiver's, another
SignedKeys == {NoKey, 7, 9}

\* the entries of sent that are frames of that peer
PeerEntries == {k \in DOMAIN sent : "key" \in DOMAIN sent[k]}

\* that peer writes a frame, signed with a key of its choice or not at all
PeerWriteSigned ==
    /\ Cardinality(PeerEntries) < MaxSignedFrames
    /\ rpos = Len(wire)
    /\ \A g \in Senders : snd[g].pc # "write"
    /\ \E f \in SignedFrames, key \in SignedKeys :
          LET m == MarshalMessage(f.Type, f.ID, f.Payload,
                                  MessageOptions(key, NoKey, NoRegistry, FALSE)) IN
          /\ wire' = wire \o WriteUint32Fixed(Len(m.data)) \o m.data
          /\ sent' = Append(sent, [Type |-> f.Type, ID |-> f.ID,
                                   Payload |-> MarshalPayload(f.Payload).bytes,
                                   streamed |-> FALSE, key |-> key])
    /\ UNCHANGED << streamConfig, sopts, ropts, nextID, lock, rpos, activeStreams, snd,
                    rcv, results, userCalls >>

(***************************************************************************)
(* Registry calls: Register and Unregister on the process-wide registry    *)
(***************************************************************************)
RegTypes == {MsgTypeResponse, UnknownType, ReservedFloor - 1, MessageTypeStreamStart,
             MessageTypeStreamChunk, MessageTypeStreamEnd, 255}

NoRegCall == [n |-> 0, op |-> "none", t |-> 0, f |-> NoFactory, before |-> NewPayloadRegistry]

RegisterPayloadType(t, f) ==
    /\ regLast.n < MaxRegOps
    /\ globalRegistry' = Register(globalRegistry, t, f)
    /\ regLast' = [n |-> regLast.n + 1, op |-> "Register", t |-> t, f |-> f,
                   before |-> globalRegistry]
    /\ UNCHANGED << apartVars, protoVars, codec, clientVars, secureVars >>

UnregisterPayloadType(t) ==
    /\ regLast.n < MaxRegOps
    /\ globalRegistry' = Unregister(globalRegistry, t)
    /\ regLast' = [n |-> regLast.n + 1, op |-> "Unregister", t |-> t, f |-> NoFactory,
                   before |-> globalRegistry]
    /\ UNCHANGED << apartVars, protoVars, codec, clientVars, secureVars >>

(***************************************************************************)
(* The codec on its own: MarshalMessage, then UnmarshalMessage of its bytes*)
(***************************************************************************)
CodecTypes == {MsgTypeResponse, UnknownType, MessageTypeStreamStart, ReservedSpare}
CodecIDs == {0, 42, 258, 16909060}
CodecPayloads ==
    {NilPayload, NotAPayload, RawBytes(<<>>), RawBytes(<<222, 173, 190>>),
     ResponsePayload(FALSE, <<>>), ResponsePayload(TRUE, <<69, 114>>),
     StreamHeader(UnknownType, 300, 2)}
\* a registry of its own, where UnknownType is registered too
OwnRegistry == Register(TestRegistry, UnknownType, "ResponsePayload")
CodecOptions ==
    {NilOptions, StrictMessageOptions, SecureMessageOptions(7),
     MessageOptions(7, 9, NoRegistry, FALSE),
     MessageOptions(NoKey, 7, NoRegistry, FALSE),
     MessageOptions(7, 9, NoRegistry, TRUE),
     MessageOptions(NoKey, 7, WithRegistry(OwnRegistry), TRUE),
     MessageOptions(NoKey, NoKey, WithRegistry(OwnRegistry), TRUE),
     MessageOptions(NoKey, NoKey, WithRegistry(NewPayloadRegistry), TRUE)}

CodecIdle == [pc |-> "off", t |-> 0, id |-> 0, payload |-> NilPayload, opts |-> NilOptions,
              m |-> MFail("nil"), u |-> UFail("nil")]

CodecMarshal ==
    /\ codec.pc = "input"
    /\ codec' = [codec EXCEPT !.pc = "marshalled",
                              !.m = MarshalMessage(codec.t, codec.id, codec.payload, codec.opts)]
    /\ UNCHANGED << apartVars, globalRegistry, regLast, protoVars, clientVars, secureVars >>

CodecUnmarshal ==
    /\ codec.pc = "marshalled"
    /\ codec.m.err = "nil"
    /\ codec' = [codec EXCEPT !.pc = "unmarshalled",
                              !.u = UnmarshalMessage(globalRegistry, codec.m.data, codec.opts)]
    /\ UNCHANGED << apartVars, globalRegistry, regLast, protoVars, clientVars, secureVars >>

(***************************************************************************)
(* Client (client.go) over the receiving Protocol, and a transport that    *)
(* fails: the peer closes it, or the Client's own Close does               *)
(***************************************************************************)
\* the error a failed io.ReadFull returns: that of a closed connection once
\* Close was called, else io.EOF when no byte is left and io.ErrUnexpectedEOF
\* when some are
ReadError ==
    IF conn = "closed" THEN "net.ErrClosed"
    ELSE IF rpos = Len(wire) THEN "EOF" ELSE "ErrUnexpectedEOF"

TransportErrors == {"net.ErrClosed", "EOF", "ErrUnexpectedEOF"}

\* receiveRaw on a transport whose read fails, of the length prefix or of the
\* message: the deferred unlock, and ReceiveMessage returns (nil, nil, err)
ReceiveRawFail(r) ==
    /\ conn # "open"
    /\ \/ rcv[r].pc = "idle" /\ ReadMuFree /\ (conn = "closed" \/ rpos + 4 > Len(wire))
       \/ rcv[r].pc = "body" /\ (conn = "closed" \/ rpos + rcv[r].msgLen > Len(wire))
    /\ results' = Append(results, Returned(r, UFail(ReadError)))
    /\ rpos' = IF conn = "closed" THEN rpos ELSE Len(wire)
    /\ lock' = Unlock("readMu", r)
    /\ rcv' = [rcv EXCEPT ![r] = IdleReceiver]
    /\ UNCHANGED << streamConfig, sopts, ropts, nextID, wire, activeStreams, snd, sent,
                    userCalls >>

\* select { case c.errChan <- err: default: }
Offer(errChan, err) == IF Len(errChan) < 1 THEN Append(errChan, err) ELSE errChan

\* what the handler returns
HandlerResults == {"nil", "ErrHandler"}

\* the listen goroutine that Start starts
Listen(c) == [c EXCEPT !.running = TRUE, !.active = @ + 1, !.lpc = "loop"]

\* a Start that starts a listener whether the client is running or not
ClientStartUnguarded ==
    /\ client.startsLeft > 0
    /\ client.lpc # "panic"
    /\ client' = Listen([client EXCEPT !.startsLeft = @ - 1])
    /\ UNCHANGED << apartVars, globalRegistry, regLast, protoVars, codec, conn, secureVars >>

\* Start: under mu, return nil when running is set, else set it; then
\* go c.listen() and return nil
ClientStart ==
    /\ client.startsLeft > 0
    /\ client.lpc # "panic"
    /\ client' = IF client.running THEN [client EXCEPT !.startsLeft = @ - 1]
                 ELSE Listen([client EXCEPT !.startsLeft = @ - 1])
    /\ UNCHANGED << apartVars, globalRegistry, regLast, protoVars, codec, conn, secureVars >>

\* listen: ReceiveMessage returned an error; it is offered on errChan and
\* listen returns
ListenError ==
    /\ client.lpc = "loop"
    /\ client.handled < Len(results)
    /\ \A r \in Receivers : rcv[r].pc = "idle"
    /\ results[Len(results)].err # "nil"
    /\ client' = [client EXCEPT !.errChan = Offer(@, results[Len(results)].err),
                                !.offer = IF Len(client.errChan) < 1 THEN "sent" ELSE "dropped",
                                !.cause = results[Len(results)].err,
                                !.handled = Len(results),
                                !.lpc = "exit"]
    /\ UNCHANGED << apartVars, globalRegistry, regLast, protoVars, codec, conn, secureVars >>

\* a listen that returns when the handler returns an error
ListenHandleReturnsOnError ==
    /\ client.lpc = "loop"
    /\ client.handled < Len(results)
    /\ \A r \in Receivers : rcv[r].pc = "idle"
    /\ results[Len(results)].err = "nil"
    /\ \E herr \in HandlerResults :
          client' = [client EXCEPT !.errChan = IF herr # "nil" THEN Offer(@, herr) ELSE @,
                                   !.handlerErrs = IF herr # "nil" THEN @ + 1 ELSE @,
                                   !.lpc = IF herr # "nil" THEN "exit" ELSE @,
                                   !.handled = Len(results)]
    /\ UNCHANGED << apartVars, globalRegistry, regLast, protoVars, codec, conn, secureVars >>

\* listen: ReceiveMessage returned a message; the handler is called and its
\* error, if any, offered on errChan
ListenHandle ==
    /\ client.lpc = "loop"
    /\ client.handled < Len(results)
    /\ \A r \in Receivers : rcv[r].pc = "idle"
    /\ results[Len(results)].err = "nil"
    /\ \E herr \in HandlerResults :
          client' = [client EXCEPT !.errChan = IF herr # "nil" THEN Offer(@, herr) ELSE @,
                                   !.handlerErrs = IF herr # "nil" THEN @ + 1 ELSE @,
                                   !.handled = Len(results)]
    /\ UNCHANGED << apartVars, globalRegistry, regLast, protoVars, codec, conn, secureVars >>

\* a listen whose deferred function leaves running set
ListenExitStillRunning ==
    /\ client.lpc = "exit"
    /\ client' = [client EXCEPT !.closers = @ + 1, !.lpc = "closing"]
    /\ UNCHANGED << apartVars, globalRegistry, regLast, protoVars, codec, conn, secureVars >>

\* listen: the deferred function: running = false under mu
ListenExit ==
    /\ client.lpc = "exit"
    /\ client' = [client EXCEPT !.running = FALSE, !.active = @ - 1, !.closers = @ + 1,
                                !.lpc = "closing"]
    /\ UNCHANGED << apartVars, globalRegistry, regLast, protoVars, codec, conn, secureVars >>

\* a deferred function that returns without closing done
ListenCloseDoneForgotten ==
    /\ client.closers > 0
    /\ client' = [client EXCEPT !.closers = @ - 1,
                                !.lpc = IF @ = "closing" THEN "stopped" ELSE @]
    /\ UNCHANGED << apartVars, globalRegistry, regLast, protoVars, codec, conn, secureVars >>

\* listen: the deferred function: close(done); the close of a channel that is
\* closed already panics
ListenCloseDone ==
    /\ client.closers > 0
    /\ client' = [client EXCEPT !.closers = @ - 1, !.closes = @ + 1, !.done = TRUE,
                                !.lpc = IF client.done THEN "panic"
                                        ELSE IF @ = "closing" THEN "stopped" ELSE @]
    /\ UNCHANGED << apartVars, globalRegistry, regLast, protoVars, codec, conn, secureVars >>

\* what a Wait call returned, with where listen stood and why it had stopped
WaitReturn(ret) == [ret |-> ret, lpc |-> client.lpc, cause |-> client.cause]

\* Wait: the select over errChan and done; of two ready cases either is taken
ClientWait ==
    /\ Len(client.waits) < MaxWaits
    /\ client.lpc # "panic"
    /\ \/ /\ client.errChan # <<>>
          /\ client' = [client EXCEPT !.errChan = Tail(@),
                                      !.waits = Append(@, WaitReturn(Head(client.errChan)))]
       \/ /\ client.done
          /\ client' = [client EXCEPT !.waits = Append(@, WaitReturn("nil"))]
    /\ UNCHANGED << apartVars, globalRegistry, regLast, protoVars, codec, conn, secureVars >>

\* Client.Close: Protocol.Close: conn.Close()
ClientClose ==
    /\ conn # "closed"
    /\ conn' = "closed"
    /\ UNCHANGED << apartVars, globalRegistry, regLast, protoVars, codec, client, secureVars >>

\* the frames the peer of the Client writes: those of a stream of one chunk
\* and a message of its own
ClientFrames ==
    {PeerStart(1, 1), PeerChunk(1, 0, <<33>>), PeerEnd(1),
     [Type |-> UnknownType, ID |-> 2, Payload |-> RawBytes(<<55>>)]}

\* what the peer has written of a frame when the transport ends: nothing, a
\* part of the length prefix, or the prefix and a part of the message
CutFrames == {<<>>, <<0, 0>>, <<0, 0, 0, 13, 200, 0>>}

\* the transport ends on the peer's side
PeerClose ==
    /\ conn = "open"
    /\ rpos = Len(wire)
    /\ conn' = "eof"
    /\ \E cut \in CutFrames : wire' = wire \o cut
    /\ UNCHANGED << apartVars, globalRegistry, regLast, codec, client, secureVars, streamConfig, sopts,
                    ropts, nextID, lock, rpos, activeStreams, snd, rcv, sent, results,
                    userCalls >>

(***************************************************************************)
(* MarshalSecure and UnmarshalSecure (message.go), on their own            *)
(***************************************************************************)
\* MarshalSecure, with the id nextGlobalMessageID returned
MarshalSecure(messageType, payload, secret, id) ==
    MarshalMessage(messageType, id, payload, SecureMessageOptions(secret))

UnmarshalSecure(global, data, secret) ==
    UnmarshalMessage(global, data, SecureMessageOptions(secret))

Secrets == {7, 9}
\* a message type with a payload of its kind: a ResponsePayload of its
\* registered type, raw bytes or nil of an unregistered one
SecureInputs ==
    {<<MsgTypeResponse, ResponsePayload(TRUE, <<69>>)>>,
     <<UnknownType, RawBytes(<<1, 2, 3>>)>>,
     <<UnknownType, RawBytes(<<>>)>>,
     <<UnknownType, NilPayload>>}

SecureIdle == [pc |-> "idle", t |-> 0, id |-> 0, payload |-> NilPayload, secret |-> NoKey,
               m |-> MFail("nil"), data |-> <<>>, with |-> NoKey, pos |-> 0,
               u |-> UFail("nil")]

\* the byte with its lowest bit flipped
FlipByte(b) == IF b % 2 = 0 THEN b + 1 ELSE b - 1
\* the values a changed byte takes: its lowest bit flipped, or zero
ChangedBytes(b) == {FlipByte(b), 0} \ {b}
ChangeByte(data, i, b) == [data EXCEPT ![i] = b]

\* MarshalSecure: nextGlobalMessageID (messageIDCounter++), MarshalMessage
MarshalSecureCall ==
    /\ secure.pc = "idle"
    /\ messageIDCounter < MaxSecureCalls
    /\ messageIDCounter' = messageIDCounter + 1
    /\ \E in \in SecureInputs, k \in Secrets :
          LET m == MarshalSecure(in[1], in[2], k, messageIDCounter + 1) IN
          secure' = [SecureIdle EXCEPT !.pc = IF m.err = "nil" THEN "marshalled" ELSE "idle",
                                       !.t = in[1], !.id = messageIDCounter + 1,
                                       !.payload = in[2], !.secret = k, !.m = m,
                                       !.data = m.data]
    /\ UNCHANGED << apartVars, globalRegistry, regLast, protoVars, codec, clientVars >>

\* UnmarshalSecure of the marshalled bytes, with the same or another secret
UnmarshalSecureCall ==
    /\ secure.pc = "marshalled"
    /\ \E k \in Secrets :
          secure' = [secure EXCEPT !.pc = "unmarshalled", !.with = k,
                                   !.u = UnmarshalSecure(globalRegistry, secure.data, k)]
    /\ UNCHANGED << apartVars, globalRegistry, regLast, protoVars, codec, clientVars, messageIDCounter >>

\* UnmarshalSecure, with the signing secret, of the marshalled bytes with one
\* byte changed
UnmarshalSecureChanged ==
    /\ secure.pc = "marshalled"
    /\ \E i \in 1 .. Len(secure.m.data) :
          \E b \in ChangedBytes(secure.m.data[i]) :
             LET data == ChangeByte(secure.m.data, i, b) IN
             secure' = [secure EXCEPT !.pc = "unmarshalled", !.with = secure.secret,
                                      !.pos = i, !.data = data,
                                      !.u = UnmarshalSecure(globalRegistry, data, secure.secret)]
    /\ UNCHANGED << apartVars, globalRegistry, regLast, protoVars, codec, clientVars, messageIDCounter >>

\* the caller goes on to its next message
SecureReturn ==
    /\ secure.pc = "unmarshalled"
    /\ secure' = SecureIdle
    /\ UNCHANGED << apartVars, globalRegistry, regLast, protoVars, codec, clientVars, messageIDCounter >>

(***************************************************************************)
(* Specifications                                                          *)
(***************************************************************************)
\* the StreamConfig of the sending Protocol with the options of the sending and
\* of the receiving Protocol, which verifies with the key the sender signs with
Setups ==
    {<<StreamConfig(2, 2, TRUE), NilOptions, NilOptions>>,
     <<StreamConfig(2, 2, TRUE), NilOptions, StrictMessageOptions>>,
     <<StreamConfig(0, 1, TRUE), NilOptions, NilOptions>>,
     <<StreamConfig(2, 1, FALSE), SecureMessageOptions(7), SecureMessageOptions(7)>>}

InitProtocol ==
    /\ nextID = 1
    /\ lock = [l \in Locks |-> NoOne]
    /\ wire = <<>>
    /\ rpos = 0
    /\ activeStreams = << >>
    /\ rcv = [r \in Receivers |-> IdleReceiver]
    /\ sent = <<>>
    /\ results = <<>>
    /\ userCalls = {}
    /\ conn = "open"

\* two goroutines calling Send on one Protocol, its peer running one
\* ReceiveMessage loop
Init ==
    /\ InitProtocol
    /\ globalRegistry = TestRegistry
    /\ regLast = NoRegCall
    /\ \E s \in Setups : streamConfig = s[1] /\ sopts = s[2] /\ ropts = s[3]
    /\ snd = [g \in Senders |-> IdleSender]
    /\ codec = CodecIdle
    /\ client = NoClient
    /\ messageIDCounter = 0
    /\ secure = SecureIdle
    /\ InitApart

Send(g) ==
    \/ NextMessageIDLock(g)
    \/ NextMessageIDReturn(g)
    \/ SendDirectLock(g)
    \/ SendDirectWrite(g)

ReceiveMessage(r) ==
    \/ ReceiveRawLock(r)
    \/ ReceiveRawBody(r)
    \/ ReceiveReturn(r)
    \/ ReceiveStart(r)
    \/ ReceiveChunk(r)
    \/ ReceiveComplete(r)
    \/ ReceiveEnd(r)

Next ==
    \/ \E g \in Senders : Send(g) /\ UNCHANGED offProtocol
    \/ \E r \in Receivers : ReceiveMessage(r) /\ UNCHANGED offProtocol

Spec == Init /\ [][Next]_vars

\* one ReceiveMessage loop reading what an arbitrary peer writes
InitRecv ==
    /\ InitProtocol
    /\ globalRegistry = TestRegistry
    /\ regLast = NoRegCall
    /\ streamConfig = StreamConfig(2, 2, TRUE)
    /\ sopts = NilOptions
    /\ ropts \in {NilOptions, StrictMessageOptions}
    /\ snd = [g \in Senders |-> [IdleSender EXCEPT !.pc = "off"]]
    /\ codec = CodecIdle
    /\ client = NoClient
    /\ messageIDCounter = 0
    /\ secure = SecureIdle
    /\ InitApart

NextRecv ==
    \/ PeerWrite /\ UNCHANGED offProtocol
    \/ \E r \in Receivers : ReceiveMessage(r) /\ UNCHANGED offProtocol

SpecRecv == InitRecv /\ [][NextRecv]_vars

\* Register and Unregister calls on a fresh registry
InitRegistry ==
    /\ InitProtocol
    /\ globalRegistry = NewPayloadRegistry
    /\ regLast = NoRegCall
    /\ streamConfig = StreamConfig(2, 2, TRUE)
    /\ sopts = NilOptions
    /\ ropts = NilOptions
    /\ snd = [g \in Senders |-> [IdleSender EXCEPT !.pc = "off"]]
    /\ codec = CodecIdle
    /\ client = NoClient
    /\ messageIDCounter = 0
    /\ secure = SecureIdle
    /\ InitApart

NextRegistry ==
    \/ \E t \in RegTypes, f \in Factories : RegisterPayloadType(t, f)
    \/ \E t \in RegTypes : UnregisterPayloadType(t)

SpecRegistry == InitRegistry /\ [][NextRegistry]_vars

\* the codec applied to each input of the bounded sets
InitCodec ==
    /\ InitProtocol
    /\ globalRegistry = TestRegistry
    /\ regLast = NoRegCall
    /\ streamConfig = StreamConfig(2, 2, TRUE)
    /\ sopts = NilOptions
    /\ ropts = NilOptions
    /\ snd = [g \in Senders |-> [IdleSender EXCEPT !.pc = "off"]]
    /\ \E t \in CodecTypes, id \in CodecIDs, p \in CodecPayloads, o \in CodecOptions :
          codec = [CodecIdle EXCEPT !.pc = "input", !.t = t, !.id = id, !.payload = p,
                                    !.opts = o]
    /\ client = NoClient
    /\ messageIDCounter = 0
    /\ secure = SecureIdle
    /\ InitApart

NextCodec == CodecMarshal \/ CodecUnmarshal

SpecCodec == InitCodec /\ [][NextCodec]_vars

\* a Client whose listen goroutine runs the receive loop, its peer, a Wait
\* call and a Close call
InitClient ==
    /\ InitProtocol
    /\ globalRegistry = TestRegistry
    /\ regLast = NoRegCall
    /\ streamConfig = StreamConfig(2, 2, TRUE)
    /\ sopts = NilOptions
    /\ ropts = NilOptions
    /\ snd = [g \in Senders |-> [IdleSender EXCEPT !.pc = "off"]]
    /\ codec = CodecIdle
    /\ client = NoClient
    /\ messageIDCounter = 0
    /\ secure = SecureIdle
    /\ InitApart

\* listen calls ReceiveMessage again once it has dealt with the last return
Listening == client.lpc = "loop" /\ client.handled = Len(results)

NextClient ==
    \/ ClientStart
    \/ \E r \in Receivers : Listening /\ ReceiveMessage(r) /\ UNCHANGED offProtocol
    \/ \E r \in Receivers : Listening /\ ReceiveRawFail(r) /\ UNCHANGED offProtocol
    \/ ListenError
    \/ ListenHandle
    \/ ListenExit
    \/ ListenCloseDone
    \/ ClientWait
    \/ ClientClose
    \/ PeerWriteOf(ClientFrames, MaxClientFrames) /\ conn = "open" /\ UNCHANGED offProtocol
    \/ PeerClose

SpecClient == InitClient /\ [][NextClient]_vars

\* the Client of SpecClient, in a program that calls Start more than once
InitRestart ==
    /\ InitProtocol
    /\ globalRegistry = TestRegistry
    /\ regLast = NoRegCall
    /\ streamConfig = StreamConfig(2, 2, TRUE)
    /\ sopts = NilOptions
    /\ ropts = NilOptions
    /\ snd = [g \in Senders |-> [IdleSender EXCEPT !.pc = "off"]]
    /\ codec = CodecIdle
    /\ client = [NoClient EXCEPT !.startsLeft = MaxStarts]
    /\ messageIDCounter = 0
    /\ secure = SecureIdle
    /\ InitApart

NextRestart == NextClient

SpecRestart == InitRestart /\ [][NextRestart]_vars

\* the steps of the listen goroutine and of the ReceiveMessage call it makes,
\* but for the read of a message body
ListenStep ==
    \/ \E r \in Receivers : Listening /\ ReceiveRawLock(r) /\ UNCHANGED offProtocol
    \/ \E r \in Receivers : Listening /\ ReceiveReturn(r) /\ UNCHANGED offProtocol
    \/ \E r \in Receivers : Listening /\ ReceiveStart(r) /\ UNCHANGED offProtocol
    \/ \E r \in Receivers : Listening /\ ReceiveChunk(r) /\ UNCHANGED offProtocol
    \/ \E r \in Receivers : Listening /\ ReceiveComplete(r) /\ UNCHANGED offProtocol
    \/ \E r \in Receivers : Listening /\ ReceiveEnd(r) /\ UNCHANGED offProtocol
    \/ \E r \in Receivers : Listening /\ ReceiveRawFail(r) /\ UNCHANGED offProtocol
    \/ ListenError
    \/ ListenHandle
    \/ ListenExit
    \/ ListenCloseDone

\* the read of a message body by the listen goroutine, and the states in
\* which it can be taken: the guard of ReceiveRawBody
ListenBodyStep == \E r \in Receivers : Listening /\ ReceiveRawBody(r) /\ UNCHANGED offProtocol
ListenBodyEnabled ==
    \E r \in Receivers :
       Listening /\ rcv[r].pc = "body" /\ conn # "closed" /\ rpos + rcv[r].msgLen <= Len(wire)

\* the Client of SpecClient with a scheduler that lets the listen goroutine
\* run whenever it can take a step; the weak fairness of the body read is
\* written with its guard in the place of ENABLED
SpecClientLive ==
    /\ SpecClient
    /\ WF_vars(ListenStep)
    /\ ([]<>~ListenBodyEnabled \/ []<><<ListenBodyStep>>_vars)

\* MarshalSecure calls, each followed by an UnmarshalSecure of its bytes
InitSecure ==
    /\ InitProtocol
    /\ globalRegistry = TestRegistry
    /\ regLast = NoRegCall
    /\ streamConfig = StreamConfig(2, 2, TRUE)
    /\ sopts = NilOptions
    /\ ropts = NilOptions
    /\ snd = [g \in Senders |-> [IdleSender EXCEPT !.pc = "off"]]
    /\ codec = CodecIdle
    /\ client = NoClient
    /\ messageIDCounter = 0
    /\ secure = SecureIdle
    /\ InitApart

NextSecure ==
    \/ MarshalSecureCall
    \/ UnmarshalSecureCall
    \/ UnmarshalSecureChanged
    \/ SecureReturn

SpecSecure == InitSecure /\ [][NextSecure]_vars

\* a sending Protocol with a signer and streaming enabled, one goroutine
\* sending on it, a receiving Protocol with the matching verifier, and a peer
\* that writes frames signed with a key of its choice
InitSigned ==
    /\ InitProtocol
    /\ globalRegistry = TestRegistry
    /\ regLast = NoRegCall
    /\ streamConfig = StreamConfig(2, 2, TRUE)
    /\ sopts = SecureMessageOptions(7)
    /\ ropts = SecureMessageOptions(7)
    /\ snd = [g \in Senders |-> IF g = "s2" THEN IdleSender
                                ELSE [IdleSender EXCEPT !.pc = "off"]]
    /\ codec = CodecIdle
    /\ client = NoClient
    /\ messageIDCounter = 0
    /\ secure = SecureIdle
    /\ InitApart

NextSigned ==
    \/ \E g \in Senders : Send(g) /\ UNCHANGED offProtocol
    \/ \E r \in Receivers : ReceiveMessage(r) /\ UNCHANGED offProtocol
    \/ PeerWriteSigned /\ UNCHANGED offProtocol

SpecSigned == InitSigned /\ [][NextSigned]_vars

\* one goroutine sending on a Protocol whose transport may fail any write
InitWriteFail ==
    /\ InitProtocol
    /\ globalRegistry = TestRegistry
    /\ regLast = NoRegCall
    /\ streamConfig \in {StreamConfig(2, 2, TRUE), StreamConfig(1, 1, TRUE)}
    /\ sopts = NilOptions
    /\ ropts = NilOptions
    /\ snd = [g \in Senders |-> IF g = "s1" THEN IdleSender
                                ELSE [IdleSender EXCEPT !.pc = "off"]]
    /\ codec = CodecIdle
    /\ client = NoClient
    /\ messageIDCounter = 0
    /\ secure = SecureIdle
    /\ InitApart

NextWriteFail ==
    \/ \E g \in Senders : Send(g) /\ UNCHANGED offProtocol
    \/ \E g \in Senders : SendDirectLockFail(g) /\ UNCHANGED offProtocol
    \/ \E g \in Senders : SendDirectWriteFail(g) /\ UNCHANGED offProtocol

SpecWriteFail == InitWriteFail /\ [][NextWriteFail]_vars

(***************************************************************************)
(* SendMessage and ReceiveMessage followed by the lengths of their         *)
(* payloads, for payloads around MaxPayloadSize                            *)
(***************************************************************************)
StreamingThreshold == 1048576
DefaultChunkSize == 65536

\* DefaultStreamConfig, a configuration with chunks of half MaxPayloadSize, and
\* streaming disabled
BigConfigs ==
    {StreamConfig(StreamingThreshold, DefaultChunkSize, TRUE),
     StreamConfig(StreamingThreshold, MaxPayloadSize \div 2, TRUE),
     StreamConfig(StreamingThreshold, DefaultChunkSize, FALSE)}

\* the lengths of the payloads handed to SendMessage
BigLens == {0, StreamingThreshold - 1, MaxPayloadSize - 1, MaxPayloadSize, MaxPayloadSize + 1}

\* MarshalMessage on a payload of plen bytes: ErrPayloadTooLarge above
\* MaxPayloadSize, else a message of the header, the payload and an empty
\* signature
MarshalMessageLen(plen) ==
    IF plen > MaxPayloadSize THEN [err |-> "ErrPayloadTooLarge", len |-> 0]
    ELSE [err |-> "nil", len |-> HeaderSize + plen + SignatureLengthSize]

\* the frame sendDirect writes: its type, the length of its payload and of the
\* message, and for a START the chunk count, for a CHUNK the length of its data
BigFrame(t, plen, total, dlen) ==
    [type |-> t, plen |-> plen, msgLen |-> MarshalMessageLen(plen).len, total |-> total,
     dlen |-> dlen]

\* the sub-message sendStreamed hands to sendDirect at stage st, chunk i, of a
\* payload of len bytes
BigSubMessage(b, st, i) ==
    LET total == TotalChunks(b.len, b.cfg.ChunkSize)
        dlen == Min(i * b.cfg.ChunkSize + b.cfg.ChunkSize, b.len) - i * b.cfg.ChunkSize
    IN CASE st = "direct" -> BigFrame(UnknownType, b.len, 0, 0)
         [] st = "start" ->
               BigFrame(MessageTypeStreamStart,
                        1 + Len(WriteUint64(b.len)) + Len(WriteUint32(total)), total, 0)
         [] st = "chunk" ->
               BigFrame(MessageTypeStreamChunk,
                        Len(WriteUint32(i)) + Len(WriteVarint(dlen)) + dlen, 0, dlen)
         [] OTHER -> BigFrame(MessageTypeStreamEnd, 0, 0, 0)

\* SendMessage: the streaming decision on the length of the marshalled payload
BigSendMessage ==
    /\ big.pc = "idle"
    /\ \E n \in BigLens :
          big' = [big EXCEPT !.pc = "send", !.len = n,
                             !.stage = IF big.cfg.Enabled /\ n >= big.cfg.Threshold
                                       THEN "start" ELSE "direct"]
    /\ UNCHANGED << globalRegistry, regLast, protoVars, codec, clientVars, secureVars,
                    server, vint >>

\* sendDirect, called by SendMessage or by sendStreamed: MarshalMessage and
\* the write of the frame; an error ends the send
BigSendDirect ==
    /\ big.pc = "send"
    /\ LET f == BigSubMessage(big, big.stage, big.i)
           m == MarshalMessageLen(f.plen)
           total == TotalChunks(big.len, big.cfg.ChunkSize)
           next == CASE big.stage = "direct" -> [stage |-> "done", i |-> 0]
                     [] big.stage = "start" ->
                           IF total > 0 THEN [stage |-> "chunk", i |-> 0]
                           ELSE [stage |-> "end", i |-> 0]
                     [] big.stage = "chunk" ->
                           IF big.i + 1 < total THEN [stage |-> "chunk", i |-> big.i + 1]
                           ELSE [stage |-> "end", i |-> 0]
                     [] OTHER -> [stage |-> "done", i |-> 0]
       IN IF m.err # "nil"
          THEN big' = [big EXCEPT !.pc = "receive", !.err = m.err]
          ELSE big' = [big EXCEPT !.frames = Append(@, f), !.stage = next.stage, !.i = next.i,
                                  !.pc = IF next.stage = "done" THEN "receive" ELSE "send"]
    /\ UNCHANGED << globalRegistry, regLast, protoVars, codec, clientVars, secureVars,
                    server, vint >>

\* what ReceiveMessage returned: an error, or a message whose payload has len
\* bytes
BigReturned(err, len) == [err |-> err, len |-> len]

\* ReceiveMessage on the next frame: receiveRaw and its bound on the frame,
\* UnmarshalMessage and its bound on the payload, then the switch: startStream,
\* addChunk and the return of the assembled payload, the END case, or the
\* return of a message sent whole
BigReceive ==
    /\ big.pc = "receive"
    /\ big.rd < Len(big.frames)
    /\ LET f == big.frames[big.rd + 1]
           none == [total |-> 0 - 1, received |-> 0, size |-> 0]
           added == [big.asm EXCEPT !.received = @ + 1, !.size = @ + f.dlen]
       IN IF FrameTooLarge(f.msgLen) \/ f.plen > MaxPayloadSize
          THEN big' = [big EXCEPT !.rd = @ + 1,
                                  !.got = Append(@, BigReturned("ErrPayloadTooLarge", 0))]
          ELSE IF f.type = MessageTypeStreamStart
          THEN big' = [big EXCEPT !.rd = @ + 1,
                                  !.asm = [total |-> f.total, received |-> 0, size |-> 0]]
          ELSE IF f.type = MessageTypeStreamChunk
          THEN IF f.dlen > MaxBytesLen
               THEN big' = [big EXCEPT !.rd = @ + 1,
                                       !.got = Append(@, BigReturned("ErrInvalidBytesLen", 0))]
               ELSE IF big.asm.total < 0 THEN big' = [big EXCEPT !.rd = @ + 1]
               ELSE IF added.received = added.total
               THEN big' = [big EXCEPT !.rd = @ + 1, !.asm = none,
                                       !.got = Append(@, BigReturned("nil", added.size))]
               ELSE big' = [big EXCEPT !.rd = @ + 1, !.asm = added]
          ELSE IF f.type = MessageTypeStreamEnd
          THEN IF big.asm.total >= 0 /\ big.asm.received = big.asm.total
               THEN big' = [big EXCEPT !.rd = @ + 1, !.asm = none,
                                       !.got = Append(@, BigReturned("nil", big.asm.size))]
               ELSE big' = [big EXCEPT !.rd = @ + 1]
          ELSE big' = [big EXCEPT !.rd = @ + 1, !.got = Append(@, BigReturned("nil", f.plen))]
    /\ UNCHANGED << globalRegistry, regLast, protoVars, codec, clientVars, secureVars,
                    server, vint >>

\* a Protocol on which nothing is sent or received, no Client, no codec call
IdleProtocol ==
    /\ InitProtocol
    /\ globalRegistry = TestRegistry
    /\ regLast = NoRegCall
    /\ streamConfig = StreamConfig(2, 2, TRUE)
    /\ sopts = NilOptions
    /\ ropts = NilOptions
    /\ snd = [g \in Senders |-> [IdleSender EXCEPT !.pc = "off"]]
    /\ codec = CodecIdle
    /\ client = NoClient
    /\ messageIDCounter = 0
    /\ secure = SecureIdle

\* one SendMessage of a payload around MaxPayloadSize, then the ReceiveMessage
\* calls of its peer
InitBig ==
    /\ IdleProtocol
    /\ \E c \in BigConfigs : big = [NoBig EXCEPT !.pc = "idle", !.cfg = c]
    /\ server = NoServer
    /\ vint = NoVint

NextBig ==
    \/ BigSendMessage
    \/ BigSendDirect
    \/ BigReceive

SpecBig == InitBig /\ [][NextBig]_vars

(***************************************************************************)
(* Server (server.go): Start's accept loop, the connection goroutines, Stop *)
(***************************************************************************)
serverOff == << globalRegistry, regLast, protoVars, codec, clientVars, secureVars, big, vint >>

\* Start: under mu, return nil when running is set, else set it and enter the
\* accept loop
ServerStart(a) ==
    /\ server.pc = "on"
    /\ server.start[a].pc = "idle"
    /\ server' = IF server.running
                 THEN [server EXCEPT !.start[a].pc = "returned"]
                 ELSE [server EXCEPT !.running = TRUE, !.start[a].pc = "accept"]
    /\ UNCHANGED serverOff

\* Start: s.listener.Accept() returns a connection, or an error: always once
\* the listener is closed, and at any time for a failure that passes
ServerAccept(a) ==
    /\ server.pc = "on"
    /\ server.start[a].pc = "accept"
    /\ \/ /\ server.listener = "open"
          /\ server.conns < MaxConns
          /\ server' = [server EXCEPT !.conns = @ + 1,
                                      !.start[a] = [pc |-> "add", conn |-> server.conns + 1]]
       \/ server' = [server EXCEPT !.start[a].pc = "check"]
    /\ UNCHANGED serverOff

\* Start: Accept returned an error: return nil when running is false, else
\* go round the loop
ServerAcceptFailed(a) ==
    /\ server.pc = "on"
    /\ server.start[a].pc = "check"
    /\ server' = [server EXCEPT !.start[a].pc = IF server.running THEN "accept" ELSE "returned"]
    /\ UNCHANGED serverOff

\* Start: NewClient, addClient, and the goroutine that runs the handler
ServerAddClient(a) ==
    /\ server.pc = "on"
    /\ server.start[a].pc = "add"
    /\ LET c == server.start[a].conn IN
       server' = [server EXCEPT !.clients = @ \cup {c}, !.handling = @ \cup {c},
                                !.start[a] = [pc |-> "accept", conn |-> 0]]
    /\ UNCHANGED serverOff

\* the connection goroutine: the handler has returned (or is nil), and the
\* deferred function runs removeClient and c.Close()
ServerHandlerDone(c) ==
    /\ server.pc = "on"
    /\ c \in server.handling
    /\ server' = [server EXCEPT !.handling = @ \ {c}, !.clients = @ \ {c},
                                !.closed = @ \cup {c}]
    /\ UNCHANGED serverOff

\* Stop: running = false under mu
ServerStop(p) ==
    /\ server.pc = "on"
    /\ server.stop[p].pc = "idle"
    /\ server' = [server EXCEPT !.running = FALSE, !.stop[p].pc = "closeListener"]
    /\ UNCHANGED serverOff

\* Stop: s.listener.Close()
StopCloseListener(p) ==
    /\ server.pc = "on"
    /\ server.stop[p].pc = "closeListener"
    /\ server' = [server EXCEPT !.listener = "closed", !.stop[p].pc = "snapshot"]
    /\ UNCHANGED serverOff

\* Stop: the copy of s.clients made under mu
StopSnapshot(p) ==
    /\ server.pc = "on"
    /\ server.stop[p].pc = "snapshot"
    /\ server' = [server EXCEPT !.stop[p] = [pc |-> "closeClients", snapshot |-> server.clients]]
    /\ UNCHANGED serverOff

\* Stop: c.Close() on every client of the copy
StopCloseClients(p) ==
    /\ server.pc = "on"
    /\ server.stop[p].pc = "closeClients"
    /\ server' = [server EXCEPT !.closed = @ \cup server.stop[p].snapshot,
                                !.stop[p].pc = "closeDone"]
    /\ UNCHANGED serverOff

\* Stop: close(s.done) and the return; the close of a channel that is closed
\* already panics
StopCloseDone(p) ==
    /\ server.pc = "on"
    /\ server.stop[p].pc = "closeDone"
    /\ server' = [server EXCEPT !.doneCloses = @ + 1,
                                !.pc = IF server.doneCloses > 0 THEN "panic" ELSE @,
                                !.stop[p].pc = IF server.doneCloses > 0 THEN "panic"
                                               ELSE "returned"]
    /\ UNCHANGED serverOff

\* a Server on a listener, with goroutines that call Start and Stop at any
\* time and connections that arrive
InitServer ==
    /\ IdleProtocol
    /\ big = NoBig
    /\ server = [NoServer EXCEPT !.pc = "on"]
    /\ vint = NoVint

StartStep(a) ==
    \/ ServerStart(a)
    \/ ServerAccept(a)
    \/ ServerAcceptFailed(a)
    \/ ServerAddClient(a)

StopStep(p) ==
    \/ ServerStop(p)
    \/ StopCloseListener(p)
    \/ StopSnapshot(p)
    \/ StopCloseClients(p)
    \/ StopCloseDone(p)

NextServer ==
    \/ \E a \in Starters : StartStep(a)
    \/ \E p \in Stoppers : StopStep(p)
    \/ \E c \in 1 .. MaxConns : ServerHandlerDone(c)

SpecServer == InitServer /\ [][NextServer]_vars

\* the Server with a scheduler that lets every goroutine that is in Start or
\* in Stop, and every connection goroutine, run whenever it can take a step
SpecServerLive ==
    /\ SpecServer
    /\ \A a \in Starters : WF_vars(server.start[a].pc # "idle" /\ StartStep(a))
    /\ \A p \in Stoppers : WF_vars(server.stop[p].pc # "idle" /\ StopStep(p))
    /\ \A c \in 1 .. MaxConns : WF_vars(ServerHandlerDone(c))

(***************************************************************************)
(* WriteVarint and ReadVarint (serialize.go) on the full width of a uint64. *)
(* A uint64 is the set of the positions of its 1 bits, 0 the lowest         *)
(***************************************************************************)
Uint64Bits == 64

\* v >= 0x80
AtLeast128(v) == \E i \in v : i >= 7

\* byte(v) & 0x7F, as a number
RECURSIVE SumOfBits(_)
SumOfBits(S) ==
    IF S = {} THEN 0
    ELSE LET i == CHOOSE x \in S : TRUE IN Pow2(i) + SumOfBits(S \ {i})

Low7(v) == SumOfBits({i \in v : i < 7})

\* a v >>= 8
Shr8(v) == {i - 8 : i \in {j \in v : j >= 8}}

\* v >>= 7
Shr7(v) == {i - 7 : i \in {j \in v : j >= 7}}

\* uint64(b & 0x7F) << shift: the bits shifted past the top are lost
GroupShifted(b, shift) ==
    {j + shift : j \in {k \in 0 .. 6 : (b \div Pow2(k)) % 2 = 1}} \cap (0 .. Uint64Bits - 1)

\* WriteVarint: for v >= 0x80 { write byte(v) | 0x80; v >>= 7 }; write byte(v)
RECURSIVE WriteVarint64(_)
WriteVarint64(v) ==
    IF AtLeast128(v) THEN << Low7(v) + 128 >> \o WriteVarint64(Shr7(v))
    ELSE << Low7(v) >>

\* ReadVarint: the loop: read a byte, fail when shift has reached 64, or the
\* group into the result, stop on a byte without the continuation bit
RECURSIVE ReadVarint64Loop(_, _, _, _)
ReadVarint64Loop(data, pos, result, shift) ==
    IF pos >= Len(data) THEN [err |-> "EOF", val |-> {}, pos |-> pos]
    ELSE LET b == data[pos + 1] IN
         IF shift >= Uint64Bits THEN [err |-> "ErrVarintOverflow", val |-> {}, pos |-> pos + 1]
         ELSE LET r == result \cup GroupShifted(b, shift) IN
              IF b < 128 THEN [err |-> "nil", val |-> r, pos |-> pos + 1]
              ELSE ReadVarint64Loop(data, pos + 1, r, shift + 7)

ReadVarint64(data, pos) == ReadVarint64Loop(data, pos, {}, 0)

\* the bit positions the values written are made of: the ends of the 7-bit
\* groups, of the 32-bit half and of the whole width; and the largest uint64
VintBitPositions == {0, 6, 7, 13, 14, 31, 32, 55, 56, 62, 63}
VintValues == (SUBSET VintBitPositions) \cup {0 .. Uint64Bits - 1}

\* what follows the varint in the buffer
VintTails == {<<>>, << 255 >>}

\* encodings of nine to twelve bytes whose every byte but the last has the
\* continuation bit
VintLongEncodings ==
    {[i \in 1 .. n |-> IF i < n THEN 128 + g ELSE h] :
        n \in 9 .. 12, g \in {0, 1, 127}, h \in {0, 1, 127}}
    \cup {[i \in 1 .. 10 |-> 128 + g] : g \in {0, 127}}

vintOff == << globalRegistry, regLast, protoVars, codec, clientVars, secureVars, big, server >>

\* WriteVarint(buf, v)
VintWrite ==
    /\ vint.pc = "idle"
    /\ \E v \in VintValues, tail \in VintTails :
          vint' = [vint EXCEPT !.pc = "written", !.v = v, !.n = Len(WriteVarint64(v)),
                               !.data = WriteVarint64(v) \o tail]
    /\ UNCHANGED vintOff

\* bytes that no WriteVarint wrote
VintForeign ==
    /\ vint.pc = "idle"
    /\ \E d \in VintLongEncodings : vint' = [vint EXCEPT !.pc = "foreign", !.data = d]
    /\ UNCHANGED vintOff

\* ReadVarint(r) on the buffer
VintRead ==
    /\ vint.pc \in {"written", "foreign"}
    /\ vint' = [vint EXCEPT !.pc = IF @ = "written" THEN "read" ELSE "readForeign",
                            !.res = ReadVarint64(vint.data, 0)]
    /\ UNCHANGED vintOff

InitVint ==
    /\ IdleProtocol
    /\ big = NoBig
    /\ server = NoServer
    /\ vint = [NoVint EXCEPT !.pc = "idle"]

NextVint ==
    \/ VintWrite
    \/ VintForeign
    \/ VintRead

SpecVint == InitVint /\ [][NextVint]_vars

\* the goroutines that call ReceiveMessage on one Protocol at the same time
Readers == {"r1", "r2"}

\* one goroutine sending on a Protocol with streaming enabled, and two
\* goroutines calling ReceiveMessage in a loop on the Protocol at the other end
InitReaders ==
    /\ nextID = 1
    /\ lock = [l \in Locks |-> NoOne]
    /\ wire = <<>>
    /\ rpos = 0
    /\ activeStreams = << >>
    /\ rcv = [r \in Readers |-> IdleReceiver]
    /\ sent = <<>>
    /\ results = <<>>
    /\ userCalls = {}
    /\ conn = "open"
    /\ globalRegistry = TestRegistry
    /\ regLast = NoRegCall
    /\ streamConfig \in {StreamConfig(2, 1, TRUE), StreamConfig(2, 2, TRUE)}
    /\ sopts = NilOptions
    /\ ropts = NilOptions
    /\ snd = [g \in Senders |-> IF g = "s1" THEN IdleSender
                                ELSE [IdleSender EXCEPT !.pc = "off"]]
    /\ codec = CodecIdle
    /\ client = NoClient
    /\ messageIDCounter = 0
    /\ secure = SecureIdle
    /\ InitApart

NextReaders ==
    \/ \E g \in Senders : Send(g) /\ UNCHANGED offProtocol
    \/ \E r \in Readers : ReceiveMessage(r) /\ UNCHANGED offProtocol

SpecReaders == InitReaders /\ [][NextReaders]_vars


(***************************************************************************)
(* What is on the wire and what has been delivered                         *)
(***************************************************************************)
\* the complete frames of the wire, each as UnmarshalMessage parses it with no
\* options: type, id, payload bytes and the payload decoded by the registry
RECURSIVE ParseFrames(_, _)
ParseFrames(w, pos) ==
    IF pos + 4 > Len(w) THEN <<>>
    ELSE LET n == ReadUint32Fixed(w, pos).val IN
         IF pos + 4 + n > Len(w) THEN <<>>
         ELSE <<UnmarshalMessage(TestRegistry, Slice(w, pos + 4, pos + 4 + n),
                                 MessageOptions(NoKey, NoKey, NoRegistry, FALSE))>>
              \o ParseFrames(w, pos + 4 + n)

WireFrames == ParseFrames(wire, 0)

FrameView(f) == [Type |-> f.msg.Type, ID |-> f.msg.ID, obj |-> f.payload]

\* the frames of the wire that carry message id id, in wire order
RECURSIVE FramesOfFrom(_, _, _)
FramesOfFrom(fs, k, id) ==
    IF k > Len(fs) THEN <<>>
    ELSE (IF fs[k].msg.ID = id THEN <<FrameView(fs[k])>> ELSE <<>>)
         \o FramesOfFrom(fs, k + 1, id)

FramesOf(id) == FramesOfFrom(WireFrames, 1, id)

IsPrefix(a, b) == Len(a) <= Len(b) /\ a = SubSeq(b, 1, Len(a))

\* the goroutine whose Send obtained id has returned from it without error
SendDone(id) == \E g \in Senders : snd[g].id = id /\ snd[g].pc = "done" /\ snd[g].err = "nil"

\* the messages ReceiveMessage has returned with message id id
RECURSIVE DeliveredFrom(_, _)
DeliveredFrom(k, id) ==
    IF k > Len(results) THEN <<>>
    ELSE (IF results[k].err = "nil" /\ results[k].msg.ID = id THEN <<results[k]>> ELSE <<>>)
         \o DeliveredFrom(k + 1, id)

Delivered(id) == DeliveredFrom(1, id)

\* every Send has returned and the receive loop has consumed the whole wire
Quiescent ==
    /\ \A g \in Senders : snd[g].pc = "done"
    /\ rpos = Len(wire)
    /\ \A r \in Receivers : rcv[r].pc = "idle"

(***************************************************************************)
(* Claims                                                                  *)
(***************************************************************************)

\* C7: NextMessageID on a fresh Protocol returns 1 and each later call returns
\* one more than the call before it; goroutines calling Send concurrently never
\* obtain the same id.  sent lists the Send calls in the order NextMessageID
\* returned to them.
C7_IdsSequentialAndUnique ==
    /\ \A k \in DOMAIN sent : sent[k].ID = k
    /\ \A g \in Senders : snd[g].pc = "nextid" => snd[g].id = Len(sent) + 1
    /\ \A g, h \in Senders :
          (g # h /\ snd[g].pc \notin {"idle", "off"} /\ snd[h].pc \notin {"idle", "off"})
          => snd[g].id # snd[h].id

C7_Witness == Len(sent) = 2 /\ sent[1].ID = 1 /\ sent[2].ID = 2


\* the frames a streamed send of payload P with chunk size cs is to write:
\* START with the original type, total_size = |P| and total_chunks = N, the
\* chunks 0 .. N-1 in order, chunk i carrying P[i*cs .. min((i+1)*cs, |P|)),
\* then END with an empty payload, where N = ceil(|P| / cs)
CeilDiv(len, cs) == CHOOSE n \in 0 .. len : n * cs >= len /\ (n = 0 \/ (n - 1) * cs < len)

ExpectedChunk(P, i, cs) == [k \in 1 .. (Min((i + 1) * cs, Len(P)) - i * cs) |-> P[i * cs + k]]

ExpectedStream(e, cs) ==
    LET N == CeilDiv(Len(e.Payload), cs) IN
    << [Type |-> MessageTypeStreamStart, ID |-> e.ID,
        obj |-> StreamHeader(e.Type, Len(e.Payload), N)] >>
    \o [i \in 1 .. N |-> [Type |-> MessageTypeStreamChunk, ID |-> e.ID,
                          obj |-> StreamChunk(i - 1, ExpectedChunk(e.Payload, i - 1, cs))]]
    \o << [Type |-> MessageTypeStreamEnd, ID |-> e.ID, obj |-> RawBytes(<<>>)] >>

\* C2: a streamed send writes one START frame (original type, total_size,
\* total_chunks = N), then the N CHUNK frames with indices 0 .. N-1 in
\* increasing order and the matching slices of the payload, then one END frame
\* with an empty payload, all with the send's message id: at every moment the
\* frames of that id on the wire are a prefix of this sequence, and the whole
\* of it once the send has returned.
C2_StreamedFrameSequence ==
    \A k \in DOMAIN sent :
        sent[k].streamed =>
            LET fs == FramesOf(sent[k].ID)
                want == ExpectedStream(sent[k], streamConfig.ChunkSize)
            IN /\ IsPrefix(fs, want)
               /\ SendDone(sent[k].ID) => fs = want

C2_Witness ==
    \E k \in DOMAIN sent :
        /\ sent[k].streamed
        /\ SendDone(sent[k].ID)
        /\ Len(sent[k].Payload) = 3
        /\ streamConfig.ChunkSize = 2
        /\ Len(FramesOf(sent[k].ID)) = 4

\* C4: all frames one SendMessage call writes are contiguous on the wire: no
\* frame of another message id lies between two frames of the same message id.
C4_FramesContiguous ==
    LET fs == WireFrames IN
    \A i, j, k \in DOMAIN fs :
        (i < j /\ j < k /\ fs[i].msg.ID = fs[k].msg.ID) => fs[j].msg.ID = fs[i].msg.ID

\* C1: a streamed send makes the single receive loop of the peer return exactly
\* one logical message for it, with the original type, the sender's message id
\* and a payload byte-identical to the one sent: never more than one, never a
\* different one, and one once the wire has been read to its end.
C1_StreamedDeliveredOnce ==
    \A k \in DOMAIN sent :
        sent[k].streamed =>
            LET got == Delivered(sent[k].ID) IN
            /\ Len(got) <= 1
            /\ \A n \in DOMAIN got :
                  got[n].msg.Type = sent[k].Type /\ got[n].msg.Payload = sent[k].Payload
            /\ Quiescent => Len(got) = 1

C1_Witness ==
    \E k \in DOMAIN sent :
        /\ sent[k].streamed
        /\ Len(sent[k].Payload) = 3
        /\ streamConfig.ChunkSize = 2
        /\ Len(Delivered(sent[k].ID)) = 1
        /\ Delivered(sent[k].ID)[1].msg.Payload = sent[k].Payload

\* C3: with goroutines calling Send concurrently, the single receive loop
\* yields exactly the logical messages that were sent: every returned message
\* is one that was sent, none is returned twice, and none is missing once the
\* wire has been read to its end, streamed sends included.
C3_ExactlyTheSentMessages ==
    /\ \A n \in DOMAIN results :
          results[n].err = "nil" =>
              \E k \in DOMAIN sent :
                  /\ sent[k].ID = results[n].msg.ID
                  /\ sent[k].Type = results[n].msg.Type
                  /\ sent[k].Payload = results[n].msg.Payload
    /\ \A k \in DOMAIN sent : Len(Delivered(sent[k].ID)) <= 1
    /\ Quiescent => \A k \in DOMAIN sent : Len(Delivered(sent[k].ID)) = 1

\* both sends delivered although the frames of one lie among the other's
C3_Witness ==
    /\ Quiescent
    /\ Len(sent) = 2
    /\ \E k \in DOMAIN sent : sent[k].streamed
    /\ \A k \in DOMAIN sent : Len(Delivered(sent[k].ID)) = 1
    /\ ~C4_FramesContiguous

\* C5: whatever well-framed messages arrive, no ReceiveMessage call returns a
\* message whose Type is a reserved type (250..255).
C5_NoReservedTypeReturned ==
    \A n \in DOMAIN results :
        results[n].err = "nil" => ~IsReservedType(results[n].msg.Type)

\* C6: a stream is emitted from the CHUNK case only when every chunk index in
\* 0..total_chunks-1 has been stored since the stream's latest START, and the
\* emitted payload is the concatenation of those chunks in index order.
C6_EmittedOnlyWhenAllChunksPresent ==
    \A r \in Receivers :
        (rcv[r].pc = "complete" /\ rcv[r].raw.msg.ID \in DOMAIN activeStreams) =>
            LET a == activeStreams[rcv[r].raw.msg.ID] IN
            /\ \A i \in 0 .. a.header.TotalChunks - 1 : i \in DOMAIN a.chunks
            /\ rcv[r].assembled = AssembleStream(a)

\* C8: no user code (payload Marshal or Unmarshal, a registry factory, a Signer
\* or Verifier) has run while its goroutine held a lock of the Protocol.
C8_NoLockHeldInUserCode == \A c \in userCalls : c.held = {}

\* C9: after any sequence of Register and Unregister calls the entries of the
\* reserved types are as at construction: Get(250) and Get(251) are the
\* built-in factories, Has is false for 252..255, and a call with a reserved
\* type leaves the whole registry as it was.
C9_ReservedEntriesUnchanged ==
    /\ Get(globalRegistry, MessageTypeStreamStart) = "StreamHeader"
    /\ Get(globalRegistry, MessageTypeStreamChunk) = "StreamChunk"
    /\ \A t \in MessageTypeStreamEnd .. 255 : ~Has(globalRegistry, t)
    /\ (regLast.op # "none" /\ regLast.t >= ReservedFloor) =>
           globalRegistry = regLast.before

\* Register(250, f) with another factory has been called on a registry in use
C9_Witness ==
    /\ regLast.op = "Register"
    /\ regLast.t = MessageTypeStreamStart
    /\ regLast.f = "ResponsePayload"
    /\ Has(regLast.before, MsgTypeResponse)

\* the registry the options decode with
CodecRegistry ==
    IF codec.opts.Registry.set THEN codec.opts.Registry.handlers ELSE globalRegistry

\* the factory that returns instances of the payload's own type
FactoryOfPayload(payload) ==
    CASE payload.kind = "header" -> "StreamHeader"
      [] payload.kind = "chunk" -> "StreamChunk"
      [] payload.kind = "resp" -> "ResponsePayload"
      [] OTHER -> NoFactory

\* C10 as stated: UnmarshalMessage of the bytes MarshalMessage returned
\* succeeds for every type, id, payload and options, with Type, ID and Payload
\* those marshalled, and with a decoded object equal to the payload whenever a
\* factory is registered for the type.
C10_RoundTripAlwaysSucceeds ==
    codec.pc = "unmarshalled" =>
        /\ codec.u.err = "nil"
        /\ codec.u.msg.Type = codec.t
        /\ codec.u.msg.ID = codec.id
        /\ codec.u.msg.Payload = MarshalPayload(codec.payload).bytes
        /\ Has(CodecRegistry, codec.t) => codec.u.payload = codec.payload

\* C10 amended: when the options' verifier is unset or holds the signer's key,
\* UnmarshalMessage of the bytes MarshalMessage returned yields a Message with
\* the Type, ID and payload bytes marshalled; otherwise it fails on the
\* signature.  The call succeeds with the raw bytes for an unregistered type
\* outside strict mode, fails with ErrUnknownMessageType for one in strict mode,
\* and for a registered type whose factory makes the payload's own type it
\* succeeds with a decoded object equal to the payload.
C10_RoundTrip ==
    codec.pc = "unmarshalled" =>
        LET o == codec.opts
            u == codec.u
            bytes == MarshalPayload(codec.payload).bytes
            known == Has(CodecRegistry, codec.t)
        IN IF o.Verifier # NoKey /\ o.Verifier # o.Signer
           THEN u.err \in {"ErrSignatureRequired", "ErrInvalidSignature"}
           ELSE /\ u.msg.Type = codec.t
                /\ u.msg.ID = codec.id
                /\ u.msg.Payload = bytes
                /\ (~known /\ ~o.StrictMode) =>
                       u.err = "nil" /\ u.payload = RawBytes(bytes)
                /\ (~known /\ o.StrictMode) => u.err = "ErrUnknownMessageType"
                /\ (known /\ Get(CodecRegistry, codec.t) = FactoryOfPayload(codec.payload)) =>
                       u.err = "nil" /\ u.payload = codec.payload

\* a signed ResponsePayload of its registered type with a four-byte id
C10_Witness ==
    /\ codec.pc = "unmarshalled"
    /\ codec.t = MsgTypeResponse
    /\ codec.id = 16909060
    /\ codec.payload = ResponsePayload(TRUE, <<69, 114>>)
    /\ codec.opts = SecureMessageOptions(7)
    /\ codec.u.err = "nil"
    /\ codec.u.payload = codec.payload

\* C11: a message marshalled with MarshalSecure under a secret unmarshals
\* without error under the same secret, with the type, id and payload
\* marshalled, and fails with ErrInvalidSignature, returning no message, under
\* any other secret.
C11_SecureRoundTrip ==
    (secure.pc = "unmarshalled" /\ secure.pos = 0) =>
        IF secure.with = secure.secret
        THEN /\ secure.u.err = "nil"
             /\ secure.u.msg.Type = secure.t
             /\ secure.u.msg.ID = secure.id
             /\ secure.u.msg.Payload = MarshalPayload(secure.payload).bytes
        ELSE secure.u = UFail("ErrInvalidSignature")

\* both halves: the same secret has accepted a message and another has
\* rejected one
C11_Witness ==
    /\ secure.pc = "unmarshalled"
    /\ secure.pos = 0
    /\ secure.with # secure.secret
    /\ secure.u.err = "ErrInvalidSignature"
    /\ secure.id = 2
    /\ secure.t = MsgTypeResponse

\* C12: changing any single byte of a buffer MarshalSecure returned makes
\* UnmarshalSecure with the same secret fail with ErrInvalidSignature.
C12_ChangedByteIsInvalidSignature ==
    (secure.pc = "unmarshalled" /\ secure.pos > 0) =>
        secure.u.err = "ErrInvalidSignature"

\* C13: with a verifier configured, UnmarshalMessage of a message whose
\* signature length on the wire is 0 fails with ErrSignatureRequired and
\* returns no message and no payload.
C13_UnsignedIsSignatureRequired ==
    (codec.pc = "unmarshalled" /\ codec.opts.Verifier # NoKey /\ codec.opts.Signer = NoKey) =>
        /\ ReadUint32Fixed(codec.m.data, Len(codec.m.data) - SignatureLengthSize).val = 0
        /\ codec.u = UFail("ErrSignatureRequired")

C13_Witness ==
    /\ codec.pc = "unmarshalled"
    /\ codec.opts = MessageOptions(NoKey, 7, NoRegistry, FALSE)
    /\ codec.t = MsgTypeResponse
    /\ codec.payload = ResponsePayload(TRUE, <<69, 114>>)
    /\ codec.u.err = "ErrSignatureRequired"
    /\ codec.u.msg = NoMessage

\* the signature check lets the message through to the payload decoding
CodecSignatureAccepted ==
    codec.opts.Verifier = NoKey \/ codec.opts.Verifier = codec.opts.Signer

C19_VarintLayout ==
    (codec.pc \in {"marshalled", "unmarshalled"} /\ codec.m.err = "nil") =>
        LET bytes == MarshalPayload(codec.payload).bytes
            head == <<codec.t>> \o WriteVarint(codec.id) \o WriteVarint(Len(bytes)) \o bytes
            signature == IF codec.opts.Signer # NoKey
                         THEN Sign(codec.opts.Signer, head) ELSE <<>>
        IN codec.m.data = head \o WriteVarint(Len(signature)) \o signature

\* C15: a reassembled stream is decoded as a non-streamed message of the same
\* type and payload is decoded by the same Protocol, with the registry and the
\* strict-mode setting of its options: every message ReceiveMessage returns
\* carries the payload object that decoding gives for its type and payload
\* bytes, and a stream about to be emitted yields the error or object that
\* decoding gives.
C15_ReassembledDecodedAsDirect ==
    /\ \A n \in DOMAIN results :
          results[n].err = "nil" =>
              LET d == DecodePayload(globalRegistry, ropts, results[n].msg.Type,
                                     results[n].msg.Payload)
              IN d.err = "nil" /\ d.obj = results[n].payload
    /\ \A r \in Receivers :
          (rcv[r].pc = "complete" /\ rcv[r].raw.msg.ID \in DOMAIN activeStreams) =>
              LET t == activeStreams[rcv[r].raw.msg.ID].header.OriginalType
                  re == Reassembled(globalRegistry, t, rcv[r].raw.msg.ID, rcv[r].assembled)
                  d == DecodePayload(globalRegistry, ropts, t, rcv[r].assembled)
              IN re.err = d.err /\ re.payload = d.obj

\* the complete frames of w from pos on, each as the bytes that follow its
\* length prefix, and the position behind the last of them
RECURSIVE RawFrames(_, _)
RawFrames(w, pos) ==
    IF pos + 4 > Len(w) THEN [frames |-> <<>>, end |-> pos]
    ELSE LET n == ReadUint32Fixed(w, pos).val IN
         IF pos + 4 + n > Len(w) THEN [frames |-> <<>>, end |-> pos]
         ELSE LET rest == RawFrames(w, pos + 4 + n) IN
              [frames |-> <<Slice(w, pos + 4, pos + 4 + n)>> \o rest.frames, end |-> rest.end]

\* the sub-messages the Send call recorded as e writes, as MarshalMessage
\* returns them
MarshalledFramesOf(e) ==
    IF e.streamed
    THEN LET want == ExpectedStream(e, streamConfig.ChunkSize) IN
         {MarshalMessage(want[i].Type, want[i].ID, want[i].obj, sopts).data : i \in DOMAIN want}
    ELSE {MarshalMessage(e.Type, e.ID, RawBytes(e.Payload), sopts).data}

\* C20: under any interleaving of the senders, each 4-byte big-endian length
\* prefix on the wire is followed by exactly that many bytes, and they are the
\* bytes of one marshalled sub-message of a Send call; what follows the last
\* complete frame is nothing, or the length prefix of the message that the
\* holder of the write lock is about to write.
C20_PrefixFollowedByItsMessage ==
    LET raw == RawFrames(wire, 0)
        marshalled == UNION {MarshalledFramesOf(sent[k]) : k \in DOMAIN sent}
        writing == {g \in Senders : snd[g].pc = "write"}
    IN /\ \A f \in DOMAIN raw.frames : raw.frames[f] \in marshalled
       /\ Cardinality(writing) <= 1
       /\ IF writing = {} THEN raw.end = Len(wire)
          ELSE \A g \in writing :
                  Slice(wire, raw.end, Len(wire)) = WriteUint32Fixed(Len(snd[g].data))

\* a sender waits for the write lock while the other has written its prefix
C20_Witness ==
    /\ \E g, h \in Senders :
          /\ snd[g].pc = "write"
          /\ snd[h].pc = "send"
          /\ snd[h].stage = "chunk"
    /\ LET raw == RawFrames(wire, 0) IN
       \E i, j \in DOMAIN raw.frames :
          ReadUint32Fixed(raw.frames[i], 1).val # ReadUint32Fixed(raw.frames[j], 1).val

\* C16: once Protocol.Close has returned, no stream is left in activeStreams.
C16_CloseEmptiesActiveStreams == conn = "closed" => activeStreams = << >>

\* C17: a failed read of the transport, between the frames of an unfinished
\* stream included, makes ReceiveMessage return that error and no message; it
\* is the last return the listener sees: listen offers the error on errChan
\* (the send is dropped only when a handler error fills the channel), reads
\* no further, and once it has stopped running is false and done is closed.
C17_ReadFailureStopsListener ==
    /\ \A n \in DOMAIN results :
          results[n].err \in TransportErrors =>
             /\ results[n].msg = NoMessage
             /\ results[n].payload = NilPayload
             /\ n = Len(results)
             /\ conn # "open"
             /\ results[n].err = "net.ErrClosed" => conn = "closed"
             /\ client.lpc \in {"loop", "exit", "closing", "stopped"}
             /\ client.lpc = "loop" => client.handled < n
    /\ client.lpc \in {"exit", "closing", "stopped"} =>
          /\ results # <<>>
          /\ results[Len(results)].err = client.cause
          /\ client.cause # "nil"
          /\ client.handled = Len(results)
          /\ \A r \in Receivers : rcv[r].pc = "idle"
          /\ client.offer \in {"sent", "dropped"}
          /\ client.offer = "dropped" => client.handlerErrs > 0
          /\ client.offer = "sent" =>
                \/ client.errChan = << client.cause >>
                \/ \E n \in DOMAIN client.waits : client.waits[n].ret = client.cause
    /\ client.lpc = "closing" => ~client.running /\ ~client.done
    /\ client.lpc = "stopped" => ~client.running /\ client.done
    /\ client.done => client.lpc = "stopped"

\* the peer's side of the transport ended after the START frame of a stream:
\* the listener has stopped on io.EOF, which waits on errChan
C17_Witness ==
    /\ client.lpc = "stopped"
    /\ client.cause = "EOF"
    /\ activeStreams # << >>
    /\ client.errChan = << "EOF" >>
    /\ ~client.running
    /\ client.done

\* the listener stopped on the connection being closed, by Close or by the
\* peer between two frames
CleanStop(cause) == cause \in {"net.ErrClosed", "EOF"}

\* C18: a Wait that returns once the listener has stopped on an error returns
\* that error, returns nil only when the listener stopped on the closing of
\* the connection, and a Wait that returns while the listener runs returns an
\* error.
C18_WaitReturnsStopError ==
    \A n \in DOMAIN client.waits :
       LET w == client.waits[n] IN
       /\ w.lpc \in {"off", "loop"} => w.ret # "nil"
       /\ w.lpc \in {"exit", "closing", "stopped"} /\ ~CleanStop(w.cause) => w.ret = w.cause
       /\ w.ret = "nil" => w.lpc = "stopped" /\ CleanStop(w.cause)

AtSwitch(r, t) ==
    /\ rcv[r].pc = "dispatch"
    /\ rcv[r].raw.err = "nil"
    /\ rcv[r].raw.msg.Type = t

\* C22: a CHUNK for an active stream whose index is already stored replaces
\* the data stored under that index and adds one to received; the header and
\* the other chunks stay.
C22_DuplicateChunkLastWriteWins ==
    [][\A r \in Receivers :
          LET id == rcv[r].raw.msg.ID
              chunk == rcv[r].raw.payload
          IN (/\ AtSwitch(r, MessageTypeStreamChunk)
              /\ id \in DOMAIN activeStreams
              /\ chunk.ChunkIndex \in DOMAIN activeStreams[id].chunks
              /\ rcv'[r] # rcv[r])
             => /\ id \in DOMAIN activeStreams'
                /\ activeStreams'[id].chunks =
                      [activeStreams[id].chunks EXCEPT ![chunk.ChunkIndex] = chunk.Data]
                /\ activeStreams'[id].received = activeStreams[id].received + 1
                /\ activeStreams'[id].header = activeStreams[id].header]_vars

\* a stream holds <<44>> under index 0 after CHUNK(0, <<33>>) and
\* CHUNK(0, <<44>>): two chunks counted, one stored
C22_Witness ==
    \E id \in DOMAIN activeStreams :
       /\ activeStreams[id].received = 2
       /\ DOMAIN activeStreams[id].chunks = {0}
       /\ activeStreams[id].chunks[0] = <<44>>
       /\ Len(sent) >= 3
       /\ sent[2].Type = MessageTypeStreamChunk
       /\ sent[3].Type = MessageTypeStreamChunk

\* the number of frames of the peer that the receive loop has read and taken
\* through the switch of ReceiveMessage (the peer writes whole frames, and
\* sent lists them in wire order)
Dispatched ==
    Len(RawFrames(Slice(wire, 0, rpos), 0).frames)
       - (IF \E r \in Receivers : rcv[r].pc = "dispatch" THEN 1 ELSE 0)

\* the dispatched frames of type t and message id id, as indices of sent
DispatchedOf(t, id) ==
    {k \in 1 .. Dispatched : sent[k].Type = t /\ sent[k].ID = id}

\* the index in sent of the latest dispatched START of id, 0 when there is none
LatestStart(id) ==
    LET starts == DispatchedOf(MessageTypeStreamStart, id) IN
    IF starts = {} THEN 0 ELSE CHOOSE k \in starts : \A j \in starts : j <= k

\* every assembler holds the header of the latest START of its id and only
\* chunks that arrived after that START, and has counted exactly those
AssemblersSinceLatestStart ==
    \A id \in DOMAIN activeStreams :
       LET a == activeStreams[id]
           start == LatestStart(id)
           since == {k \in DispatchedOf(MessageTypeStreamChunk, id) : k > start}
       IN /\ start > 0
          /\ sent[start].Payload = StreamHeaderMarshal(a.header)
          /\ a.received = Cardinality(since)
          /\ \A i \in DOMAIN a.chunks :
                \E k \in since :
                   sent[k].Payload = StreamChunkMarshal(StreamChunk(i, a.chunks[i]))

\* C23: a START for an id that has an assembler puts a fresh one in its place
\* (the new header, received = 0, no chunks) and returns nothing; an assembler
\* holds only chunks that arrived after the latest START of its id, and a
\* reassembled payload is made of the chunks of its assembler, so no chunk
\* from before that START is in it.
C23_StartResetsAssembler ==
    /\ []AssemblersSinceLatestStart
    /\ [][\A r \in Receivers :
            LET id == rcv[r].raw.msg.ID IN
            /\ (/\ AtSwitch(r, MessageTypeStreamStart)
                /\ id \in DOMAIN activeStreams
                /\ rcv'[r] # rcv[r])
               => /\ activeStreams' =
                        [activeStreams EXCEPT ![id] = NewAssembler(rcv[r].raw.payload)]
                  /\ results' = results
                  /\ rcv'[r] = IdleReceiver
            /\ (/\ rcv[r].pc \in {"dispatch", "complete"}
                /\ Len(results') > Len(results)
                /\ results'[Len(results')].err = "nil"
                /\ rcv[r].raw.err = "nil"
                /\ rcv[r].raw.msg.Type \in {MessageTypeStreamChunk, MessageTypeStreamEnd})
               => /\ id \in DOMAIN activeStreams
                  /\ results'[Len(results')].msg.Payload = AssembleStream(activeStreams[id])]_vars

\* a second START has replaced an assembler that held a chunk, and a chunk
\* has arrived since
C23_Witness ==
    /\ Len(sent) >= 4
    /\ Dispatched >= 4
    /\ sent[1].Type = MessageTypeStreamStart /\ sent[1].ID = 1
    /\ sent[2].Type = MessageTypeStreamChunk /\ sent[2].ID = 1
    /\ sent[3].Type = MessageTypeStreamStart /\ sent[3].ID = 1
    /\ sent[4].Type = MessageTypeStreamChunk /\ sent[4].ID = 1
    /\ 1 \in DOMAIN activeStreams
    /\ activeStreams[1].received = 1

\* the frame of the peer that the receive loop r has read and is about to take
\* through the switch of ReceiveMessage, or to return the error of
AtFrame(r, types) ==
    /\ rcv[r].pc = "dispatch"
    /\ Dispatched + 1 \in DOMAIN sent
    /\ sent[Dispatched + 1].Type \in types

\* C24: a CHUNK or END whose message id has no assembler is skipped: the
\* ReceiveMessage call returns nothing for it, no error either, the
\* assemblers stay as they are and the loop goes on to read the next frame.
C24_SpuriousFrameSkipped ==
    [][\A r \in Receivers :
          (/\ AtFrame(r, {MessageTypeStreamChunk, MessageTypeStreamEnd})
           /\ sent[Dispatched + 1].ID \notin DOMAIN activeStreams
           /\ rcv'[r] # rcv[r])
          => /\ results' = results
             /\ activeStreams' = activeStreams
             /\ rcv'[r] = IdleReceiver]_vars

\* C25: an END for an id whose assembler has received # total_chunks returns
\* nothing, no error either, and leaves the assemblers as they are; an
\* assembler leaves activeStreams only when its stream is complete.
C25_IncompleteEndSwallowed ==
    [][\A r \in Receivers :
          /\ (/\ AtFrame(r, {MessageTypeStreamEnd})
              /\ sent[Dispatched + 1].ID \in DOMAIN activeStreams
              /\ ~StreamComplete(activeStreams[sent[Dispatched + 1].ID])
              /\ rcv'[r] # rcv[r])
             => /\ results' = results
                /\ activeStreams' = activeStreams
                /\ rcv'[r] = IdleReceiver
          /\ \A id \in DOMAIN activeStreams :
                id \notin DOMAIN activeStreams' => StreamComplete(activeStreams[id])]_vars

\* the bytes of the frame the receive loop r has just read
FrameRead(r) == Slice(wire, rpos - rcv[r].msgLen, rpos)

\* the Send calls that streamed under message id id, as indices of sent
StreamedAs(id) == {k \in DOMAIN sent : sent[k].streamed /\ sent[k].ID = id}

\* C26: for a stream written by a streamed Send with total_chunks >= 1 and
\* read by the single receive loop, the CHUNK that makes received reach
\* total_chunks makes the same ReceiveMessage call return the message and
\* remove the assembler; the END that follows finds no assembler and is
\* skipped like a spurious frame: nothing returned, no error, the assemblers
\* as they were.  An END makes ReceiveMessage return a message only for a
\* stream of total_chunks = 0.
C26_EmittedOnLastChunk ==
    [][\A r \in Receivers :
          LET id == rcv[r].raw.msg.ID
              frame == FrameRead(r)
              frameID == ReadUint32Fixed(frame, 1).val
          IN /\ (/\ AtSwitch(r, MessageTypeStreamChunk)
                 /\ StreamedAs(id) # {}
                 /\ id \in DOMAIN activeStreams
                 /\ activeStreams[id].received + 1 = activeStreams[id].header.TotalChunks
                 /\ rcv'[r] # rcv[r])
                => rcv'[r].pc = "complete"
             /\ (rcv[r].pc = "complete" /\ StreamedAs(id) # {} /\ rcv'[r] # rcv[r])
                => /\ Len(results') = Len(results) + 1
                   /\ results'[Len(results')].err = "nil"
                   /\ results'[Len(results')].msg.ID = id
                   /\ id \notin DOMAIN activeStreams'
                   /\ rcv'[r] = IdleReceiver
             /\ (/\ rcv[r].pc = "dispatch"
                 /\ frame[1] = MessageTypeStreamEnd
                 /\ \E k \in StreamedAs(frameID) :
                       TotalChunks(Len(sent[k].Payload), streamConfig.ChunkSize) >= 1
                 /\ rcv'[r] # rcv[r])
                => /\ frameID \notin DOMAIN activeStreams
                   /\ results' = results
                   /\ activeStreams' = activeStreams
                   /\ rcv'[r] = IdleReceiver
             /\ (/\ rcv[r].pc = "dispatch"
                 /\ frame[1] = MessageTypeStreamEnd
                 /\ Len(results') > Len(results)
                 /\ results'[Len(results')].err = "nil")
                => /\ frameID \in DOMAIN activeStreams
                   /\ activeStreams[frameID].header.TotalChunks = 0]_vars

\* C27: a Send that has returned has streamed its payload (a START frame
\* first, an END frame last) exactly when streaming is enabled and the
\* serialized payload has at least Threshold bytes; otherwise it has written
\* one frame, of the original message type.
C27_StreamedIffAtThreshold ==
    \A k \in DOMAIN sent :
        SendDone(sent[k].ID) =>
            LET fs == FramesOf(sent[k].ID) IN
            IF streamConfig.Enabled /\ Len(sent[k].Payload) >= streamConfig.Threshold
            THEN /\ Len(fs) >= 2
                 /\ fs[1].Type = MessageTypeStreamStart
                 /\ fs[1].obj.OriginalType = sent[k].Type
                 /\ fs[Len(fs)].Type = MessageTypeStreamEnd
            ELSE /\ Len(fs) = 1
                 /\ fs[1].Type = sent[k].Type

\* with Threshold 2, a payload of 2 bytes has been streamed and one of 1 byte
\* sent in one frame
C27_Witness ==
    /\ streamConfig.Enabled
    /\ streamConfig.Threshold = 2
    /\ \E j, k \in DOMAIN sent :
          /\ SendDone(sent[j].ID) /\ SendDone(sent[k].ID)
          /\ Len(sent[j].Payload) = 2
          /\ Len(sent[k].Payload) = 1
          /\ FramesOf(sent[j].ID)[1].Type = MessageTypeStreamStart
          /\ Len(FramesOf(sent[k].ID)) = 1

\* C28: with a verifier configured, UnmarshalMessage of a message that carries
\* no signature or one the verifier rejects returns the signature error
\* (ErrSignatureRequired, ErrInvalidSignature) with no message and no payload,
\* in strict mode and outside it, for registered and unregistered types, and
\* for payloads the type's factory cannot decode: no factory and no payload
\* Unmarshal has run on it.
C28_SignatureErrorBeforeDecoding ==
    (/\ codec.pc = "unmarshalled"
     /\ codec.opts.Verifier # NoKey
     /\ codec.opts.Verifier # codec.opts.Signer) =>
        /\ codec.u = UFail(IF codec.opts.Signer = NoKey THEN "ErrSignatureRequired"
                           ELSE "ErrInvalidSignature")
        /\ UserCodeOfUnmarshal(globalRegistry, codec.m.data, codec.opts)
              \cap {"Factory", "Unmarshal"} = {}

\* a wrongly signed message of an unregistered type has been refused in
\* strict mode with the signature error, not with ErrUnknownMessageType
C28_Witness ==
    /\ codec.pc = "unmarshalled"
    /\ codec.opts = MessageOptions(7, 9, NoRegistry, TRUE)
    /\ codec.t = UnknownType
    /\ ~Has(CodecRegistry, codec.t)
    /\ codec.u = UFail("ErrInvalidSignature")

\* the header and payload of a frame: the bytes a signature covers
SignedPart(frame) == Slice(frame, 0, HeaderSize + ReadUint32Fixed(frame, 5).val)

\* the frame ends in the signature that key gives its header and payload
SignedWith(frame, key) ==
    LET head == SignedPart(frame)
        signature == Sign(key, head)
    IN frame = head \o WriteUint32Fixed(Len(signature)) \o signature

\* every frame a Send has written carries the signature of the signer over
\* its own header and payload, and a stream that is written out has its START,
\* its chunks and its END among them
SubMessagesSigned ==
    LET raw == RawFrames(wire, 0).frames
        ids == {sent[k].ID : k \in DOMAIN sent \ PeerEntries}
    IN /\ \A f \in DOMAIN raw :
             ReadUint32Fixed(raw[f], 1).val \in ids => SignedWith(raw[f], sopts.Signer)
       /\ \A k \in DOMAIN sent \ PeerEntries :
             (sent[k].streamed /\ SendDone(sent[k].ID)) =>
                LET types == [f \in {i \in DOMAIN raw :
                                        ReadUint32Fixed(raw[i], 1).val = sent[k].ID}
                                |-> raw[f][1]]
                IN /\ Cardinality(DOMAIN types) =
                        2 + TotalChunks(Len(sent[k].Payload), streamConfig.ChunkSize)
                   /\ \E f \in DOMAIN types : types[f] = MessageTypeStreamStart
                   /\ \E f \in DOMAIN types : types[f] = MessageTypeStreamChunk
                   /\ \E f \in DOMAIN types : types[f] = MessageTypeStreamEnd

\* C29: with a signer on the sending Protocol every frame of a streamed send
\* (START, each CHUNK, END) carries its own signature over that frame's header
\* and payload; the receiving Protocol's verifier is applied to each frame it
\* reads, and a frame that is unsigned or not signed with the verifier's key
\* makes that ReceiveMessage call return ErrSignatureRequired or
\* ErrInvalidSignature and no message, the assemblers left as they were.
C29_SubMessagesSignedAndVerified ==
    /\ []SubMessagesSigned
    /\ [][\A r \in Receivers :
            (/\ rcv[r].pc = "dispatch"
             /\ ropts.Verifier # NoKey
             /\ ~SignedWith(FrameRead(r), ropts.Verifier)
             /\ rcv'[r] # rcv[r])
            => /\ results' = Append(results, Returned(r, UFail(
                     IF FrameRead(r) = SignedPart(FrameRead(r)) \o WriteUint32Fixed(0)
                     THEN "ErrSignatureRequired" ELSE "ErrInvalidSignature")))
               /\ activeStreams' = activeStreams
               /\ rcv'[r] = IdleReceiver]_vars

\* a signed stream of the sender has been written out, and of the peer's
\* stream the START was accepted and the CHUNK, signed with another key,
\* refused: no message of the peer's id is returned
C29_Witness ==
    /\ \E k \in DOMAIN sent \ PeerEntries : sent[k].streamed /\ SendDone(sent[k].ID)
    /\ \E j, k \in PeerEntries :
          /\ j < k
          /\ sent[j].Type = MessageTypeStreamStart /\ sent[j].key = 7
          /\ sent[k].Type = MessageTypeStreamChunk /\ sent[k].key = 9
    /\ \E n \in DOMAIN results : results[n].err = "ErrInvalidSignature"
    /\ 9 \in DOMAIN activeStreams
    /\ activeStreams[9].received = 0
    /\ rpos = Len(wire)
    /\ \A r \in Receivers : rcv[r].pc = "idle"

\* the sub-messages the Send call recorded as e is to write, marshalled, in
\* order
FramesToWrite(e) ==
    IF e.streamed
    THEN LET want == ExpectedStream(e, streamConfig.ChunkSize) IN
         [i \in DOMAIN want |->
            MarshalMessage(want[i].Type, want[i].ID, want[i].obj, sopts).data]
    ELSE << MarshalMessage(e.Type, e.ID, RawBytes(e.Payload), sopts).data >>

\* the number of sub-messages sendStreamed has written before the one at
\* stage s.stage
WrittenBefore(s) ==
    CASE s.stage = "chunk" -> 1 + s.i
      [] s.stage = "end" -> 1 + TotalChunks(Len(s.pbytes), streamConfig.ChunkSize)
      [] OTHER -> 0

\* C30: when a write of the transport fails, Send has returned that error,
\* holding no lock, and the transport holds the sub-messages written before
\* the failing one, what the failing write put out of its own length prefix
\* and message (never the whole: after a failed write of the length prefix no
\* byte of the message) and nothing after: no later CHUNK, no END, no retry.
C30_WriteErrorStopsSend ==
    \A g \in Senders :
        snd[g].err = "ErrWrite" =>
            LET e == sent[1]
                frames == FramesToWrite(e)
                raw == RawFrames(wire, 0)
                n == WrittenBefore(snd[g])
                failing == WriteUint32Fixed(Len(frames[n + 1])) \o frames[n + 1]
                rest == Slice(wire, raw.end, Len(wire))
            IN /\ snd[g].pc = "done"
               /\ HeldBy(g) = {}
               /\ raw.frames = SubSeq(frames, 1, n)
               /\ IsPrefix(rest, failing)
               /\ Len(rest) < Len(failing)
               /\ Len(rest) \in {0, 2, 4, 4 + Len(frames[n + 1]) \div 2}

\* the write of the second of three chunks has failed half-way
C30_Witness ==
    /\ snd["s1"].err = "ErrWrite"
    /\ snd["s1"].pc = "done"
    /\ snd["s1"].stage = "chunk"
    /\ snd["s1"].i = 1
    /\ TotalChunks(Len(snd["s1"].pbytes), streamConfig.ChunkSize) = 3
    /\ Len(RawFrames(wire, 0).frames) = 2
    /\ Len(wire) > RawFrames(wire, 0).end + 4

\* the offsets of the wire at which a frame starts: 0, and the offset behind
\* every frame
RECURSIVE FrameStartsFrom(_, _)
FrameStartsFrom(w, pos) ==
    IF pos + 4 > Len(w) THEN {pos}
    ELSE {pos} \cup FrameStartsFrom(w, pos + 4 + ReadUint32Fixed(w, pos).val)

\* the goroutines that have read a length prefix and not yet its body
InBody == {r \in Readers : rcv[r].pc = "body"}

\* C31: with several goroutines in ReceiveMessage on one Protocol, each frame
\* is read whole by one caller: a caller reads a length prefix only at a frame
\* boundary and with the read lock, at most one caller stands between a prefix
\* and its body, the body it then reads is the one its prefix announced, the
\* read position only moves forward, by the caller that holds the read lock,
\* and what the caller hands to the switch is that frame decoded.
C31_FrameReadWholeByOneCaller ==
    /\ [](/\ Cardinality(InBody) <= 1
          /\ \A r \in InBody :
                /\ lock["readMu"] = r
                /\ rpos - 4 \in FrameStartsFrom(wire, 0)
                /\ rcv[r].msgLen = ReadUint32Fixed(wire, rpos - 4).val
          /\ InBody = {} => rpos \in FrameStartsFrom(wire, 0) /\ lock["readMu"] = NoOne)
    /\ [][/\ rpos' >= rpos
          /\ rpos' # rpos =>
                \E r \in Readers :
                   /\ \A o \in Readers \ {r} : rcv'[o] = rcv[o]
                   /\ \/ /\ rcv[r].pc = "idle"
                         /\ lock["readMu"] = NoOne
                         /\ rpos' = rpos + 4
                         /\ rcv'[r].pc = "body"
                      \/ /\ rcv[r].pc = "body"
                         /\ rpos' = rpos + rcv[r].msgLen
                         /\ rpos' \in FrameStartsFrom(wire, 0)
                         /\ rcv'[r].pc = "dispatch"
                         /\ rcv'[r].raw =
                               UnmarshalMessage(globalRegistry, Slice(wire, rpos, rpos'), ropts)]_vars

\* a caller stands between a prefix and its body while the other caller, which
\* has read the frame before, is at the switch, and a further frame waits on
\* the wire behind the body
C31_Witness ==
    /\ rcv["r1"].pc = "body"
    /\ rcv["r2"].pc = "dispatch"
    /\ rcv["r2"].raw.err = "nil"
    /\ rcv["r2"].raw.msg.Type = MessageTypeStreamStart
    /\ rpos + rcv["r1"].msgLen + 4 <= Len(wire)

\* C32: with two goroutines in ReceiveMessage on one Protocol, the caller
\* whose CHUNK completed a stream finds the assembler when it looks it up again,
\* and once the sender has returned and the callers have read the whole wire, a
\* streamed message has been returned exactly once.
C32_StreamDeliveredOnceByReaders ==
    /\ \A r \in Readers : rcv[r].pc # "panic"
    /\ (/\ snd["s1"].pc = "done"
        /\ rpos = Len(wire)
        /\ \A r \in Readers : rcv[r].pc = "idle") =>
          \A k \in DOMAIN sent : sent[k].streamed => Len(Delivered(sent[k].ID)) = 1

\* C33: every logical message that SendMessage has put on the wire without
\* error, and every message that ReceiveMessage returns, has a payload of at
\* most MaxPayloadSize bytes, sent whole or as a stream, and a SendMessage of a
\* larger payload returns ErrPayloadTooLarge.
C33_PayloadWithinMaxPayloadSize ==
    /\ big.pc = "receive" /\ big.err = "nil" => big.len <= MaxPayloadSize
    /\ big.pc = "receive" /\ big.len > MaxPayloadSize => big.err = "ErrPayloadTooLarge"
    /\ \A n \in DOMAIN big.got : big.got[n].err = "nil" => big.got[n].len <= MaxPayloadSize

C35_DoneClosedAtMostOnce == client.closes <= 1 /\ client.lpc # "panic"

\* C36: a handler that returns an error does not stop the listen loop: the
\* error is put on errChan when its one slot is free and dropped when it is
\* taken, the listener stays in its loop with running set and done open as
\* before, and it goes on to call ReceiveMessage for the next message.
C36_HandlerErrorKeepsListening ==
    [][client'.handlerErrs # client.handlerErrs =>
          /\ client.lpc = "loop"
          /\ client'.lpc = "loop"
          /\ client'.running = client.running
          /\ client'.done = client.done
          /\ client'.errChan = IF client.errChan = <<>> THEN << "ErrHandler" >>
                               ELSE client.errChan
          /\ Len(client'.errChan) = 1
          /\ client'.handled = Len(results')
          /\ results' = results]_vars

\* the handler has returned an error for each of two messages: the first is on
\* errChan, the second was dropped, and the listener is in its loop
C36_Witness ==
    /\ client.handlerErrs = 2
    /\ client.handled = 2
    /\ client.errChan = << "ErrHandler" >>
    /\ client.waits = <<>>
    /\ client.lpc = "loop"
    /\ client.running
    /\ ~client.done

\* C37: once Close has been called on a started Client, over a transport
\* whose reads fail when it is closed, the listener eventually stops: running
\* is false and done is closed.
C37_CloseStopsListener ==
    (conn = "closed" /\ client.lpc # "off") ~> (~client.running /\ client.done)

\* Close was called while the listener ran; it has stopped on the error of
\* the closed connection
C37_Witness ==
    /\ conn = "closed"
    /\ client.lpc = "stopped"
    /\ client.cause = "net.ErrClosed"
    /\ ~client.running
    /\ client.done
    /\ client.handled > 1

\* a Stop call has been made
StopCalled == \E p \in Stoppers : server.stop[p].pc # "idle"

\* C38: once Stop has been called, every Start call that is in the accept
\* loop, or enters it later, eventually returns (nil), and a Start call in the
\* loop returns only when running is false: an Accept error while the server
\* is running makes it go round the loop.
C38_StartReturnsAfterStop ==
    /\ \A a \in Starters :
          (StopCalled /\ server.start[a].pc \in {"accept", "check", "add"})
             ~> (server.start[a].pc = "returned")
    /\ [][\A a \in Starters :
             (server.start[a].pc \in {"accept", "check", "add"}
                 /\ server'.start[a].pc = "returned") =>
                server.start[a].pc = "check" /\ ~server.running]_vars

\* C39: a Stop call that has returned has closed the listener and every
\* client that was registered when it copied the client set, and over any
\* sequence of Stop calls done is closed at most once.
C39_StopClosesAllAndDoneOnce ==
    /\ \A p \in Stoppers :
          server.stop[p].pc = "returned" =>
             /\ server.listener = "closed"
             /\ server.stop[p].snapshot \subseteq server.closed
    /\ server.doneCloses <= 1

\* C40: for every uint64 v, ReadVarint on the bytes WriteVarint(v) wrote
\* returns v without error and has consumed exactly those bytes: one byte for
\* v < 128, never more than ten; and an encoding that goes on past ten bytes
\* fails with ErrVarintOverflow.
C40_VarintRoundTrip ==
    /\ vint.pc \in {"written", "read"} =>
          /\ vint.n >= 1
          /\ vint.n <= 10
          /\ ~AtLeast128(vint.v) <=> vint.n = 1
    /\ vint.pc = "read" =>
          /\ vint.res.err = "nil"
          /\ vint.res.val = vint.v
          /\ vint.res.pos = vint.n
    /\ vint.pc = "readForeign" =>
          /\ (Len(vint.data) > 10 /\ \A i \in 1 .. 10 : vint.data[i] >= 128) =>
                vint.res.err = "ErrVarintOverflow"
          /\ vint.res.err = "ErrVarintOverflow" => Len(vint.data) > 10

\* the largest uint64 was written on ten bytes and read back, a byte that
\* follows it in the buffer left unread
C40_Witness ==
    /\ vint.pc = "read"
    /\ vint.v = 0 .. Uint64Bits - 1
    /\ vint.data = << 255, 255, 255, 255, 255, 255, 255, 255, 255, 1, 255 >>
    /\ vint.n = 10
    /\ Len(vint.data) = 11
    /\ vint.res.val = vint.v
    /\ vint.res.pos = 10

====
